---- MODULE Spec2Model ----
(***************************************************************************)
(* ImageWrangler: the job scheduler of lib/workerManager.ts together with  *)
(* the worker it talks to (workers/imageProcessor.worker.ts), the input    *)
(* validator of lib/fileValidation.ts, the bitmap codec of                 *)
(* lib/bmpEncoder.ts and the transform engine of lib/imageProcessor.ts.    *)
(*                                                                         *)
(* Scheduler part.  Requests are numbered 1, 2, ... in the order in which  *)
(* processImageAsync / validateImageAsync are called (generateId gives     *)
(* each one its own id).  One action is one run-to-completion task of the  *)
(* coordinating (main) thread or of the worker thread.                     *)
(***************************************************************************)
EXTENDS Integers, Sequences, FiniteSets, TLC

\* ------------------------------------------------------------------ bounds
MaxRequests == 4
\* longest run of leading file bytes the validator is tried on
MaxBytes == 16
\* largest width and height of an ImageData handed to encodeBMP
MaxSide == 4
\* largest number of files handed to mergeImages
MaxFiles == 4
\* largest number of messages handed to the worker directly
MaxMessages == 2
\* largest number of images in the list
MaxImages == 2
\* largest number of option edits
MaxEdits == 3

\* ------------------------------------------------------- program constants
MAX_CONCURRENCY == 2
\* SecurityConstants
MAX_WIDTH == 15000
MAX_HEIGHT == 15000
MAX_PIXELS == 50000000
MAX_FILE_SIZE == 100 * 1024 * 1024

VARIABLES
    activeJobs,         \* workerManager.ts:13
    jobQueue,           \* workerManager.ts:14, the queued thunks: the message
                        \* each closes over and what handing it over will do
    worker,             \* workerManager.ts:17, 0 = null, 1 = a live Worker
    pendingOperations,  \* workerManager.ts:20, the keys of the map
    nextId,             \* the id the next submit will draw
    future,             \* id -> the promise returned to the caller
    inbox,              \* messages posted to the current worker, not yet taken
    executing,          \* ids whose worker-side handler started and is awaiting
    outbox,             \* responses posted by a worker, not yet handled by main
    dispatched,         \* ids in the order their thunk was run
    lastOp,             \* the last scheduler operation that ran to completion
    vfile,              \* the File handed to validateImageFile
    vresult,            \* the ValidationResult it returned
    vcalls,             \* the platform calls that call made, in order
    vpc,                \* "idle" | "start" | "done"
    bimage,             \* the ImageData handed to encodeBMP
    bout,               \* what encodeBMP did: its buffer, its final write
                        \* offset, whether a write threw a RangeError
    bpc,                \* "idle" | "start" | "done"
    pfile,              \* processImage: what the platform makes of the file
                        \* and of the canvas (decode, 2D context, encoder)
    poptions,           \* the ProcessOptions of the call
    plocal,             \* the local variables of the call
    psurfaces,          \* every OffscreenCanvas constructed, in order
    pexports,           \* every convertToBlob / encodeBMP call, in order
    pclosed,            \* number of bitmap.close() calls
    presult,            \* what the call returned or threw
    ppc,                \* "idle" | "start" | "export" (awaiting
                        \* convertToBlob) | "done"
    mfiles,             \* mergeImages: what createImageBitmap makes of each
                        \* file, in order
    mplatform,          \* what the canvas does: "ok", "noContext" or
                        \* "exportFails"
    mmerge,             \* what the call did: bitmaps decoded, closes of each,
                        \* canvases constructed, drawImage calls, outcome
    mpc,                \* "idle" | "start" | "done"
    images,             \* ImageWrangler.tsx:18, the image list: options,
                        \* status and processedFile of each image
    timeout,            \* the timer of the debounced processSingleImage and
                        \* the image it was set with
    calls,              \* the processImageAsync calls awaited by
                        \* processSingleImage, oldest first
    submitted,          \* per image, the options of its latest
                        \* processImageAsync call
    edits               \* number of handleOptionsChange calls so far

schedVars == <<activeJobs, jobQueue, worker, pendingOperations, nextId, future,
               inbox, executing, outbox, dispatched, lastOp>>

validatorVars == <<vfile, vresult, vcalls, vpc>>

bmpVars == <<bimage, bout, bpc>>

\* The variables of the library functions, which the scheduler never touches.
processVars == <<pfile, poptions, plocal, psurfaces, pexports, pclosed,
                 presult, ppc>>

mergeVars == <<mfiles, mplatform, mmerge, mpc>>

uiVars == <<images, timeout, calls, submitted, edits>>

libVars == <<validatorVars, bmpVars, processVars, mergeVars, uiVars>>

vars == <<schedVars, libVars>>

Ids == 1..MaxRequests

\* What handing a message to the worker does (the try block of the thunk):
\*   "ok"           getWorker() and postMessage both return
\*   "createThrows" `new Worker` throws if no worker exists at that moment
\*   "cloneThrows"  postMessage throws (e.g. the payload cannot be cloned)
Handoffs == {"ok", "createThrows", "cloneThrows"}

Unsubmitted == [state |-> "unsubmitted", error |-> ""]
Pending     == [state |-> "pending", error |-> ""]
Resolved    == [state |-> "resolved", error |-> ""]
Rejected(e) == [state |-> "rejected", error |-> e]

\* The message processImageAsync builds for PROCESS (file and options) and
\* validateImageAsync for VALIDATE (file only).
WorkerMessage(id, type) ==
    [id |-> id, type |-> type, file |-> TRUE, options |-> (type = "PROCESS")]

\* A promise settles once: resolve/reject of a settled promise is a no-op.
Settle(fut, id, v) ==
    IF fut[id].state = "pending" THEN [fut EXCEPT ![id] = v] ELSE fut

RECURSIVE SettleAll(_, _, _)
SettleAll(fut, ids, v) ==
    IF ids = {} THEN fut
    ELSE LET id == CHOOSE x \in ids : TRUE
         IN  SettleAll(Settle(fut, id, v), ids \ {id}, v)

\* The part of the state the scheduler's functions read and write.
Sched ==
    [activeJobs |-> activeJobs, jobQueue |-> jobQueue, worker |-> worker,
     pendingOperations |-> pendingOperations, future |-> future,
     inbox |-> inbox, dispatched |-> dispatched]

\* getWorker(): the state after the call; a worker created here starts with
\* an empty message queue.
getWorker(s) ==
    IF s.worker = 0
    THEN [s EXCEPT !.worker = 1, !.inbox = <<>>]
    ELSE s

RECURSIVE processNextJob(_)

\* The catch block without its processNextJob() call.
jobCatchNoRetry(s, j) ==
    [s EXCEPT !.activeJobs = s.activeJobs - 1,
              !.future = Settle(s.future, j.id, Rejected("thrown"))]

\* The catch block of the thunk: revert the slot, reject, processNextJob.
jobCatch(s, j) ==
    processNextJob([s EXCEPT !.activeJobs = s.activeJobs - 1,
                             !.future = Settle(s.future, j.id, Rejected("thrown"))])

\* The thunk `job` of enqueueJob for the queued entry j, run by processNextJob.
job(s, j) ==
    IF j.handoff = "createThrows" /\ s.worker = 0
    THEN \* getWorker() throws
         jobCatch(s, j)
    ELSE LET w == getWorker(s)
             p == [w EXCEPT !.pendingOperations = w.pendingOperations \cup {j.id}]
         IN  IF j.handoff = "cloneThrows"
             THEN \* postMessage throws, after pendingOperations.set
                  jobCatch(p, j)
             ELSE [p EXCEPT !.inbox = Append(p.inbox, WorkerMessage(j.id, j.type))]

\* processNextJob admitting a job while MAX_CONCURRENCY are already running.
processNextJobOffByOne(s) ==
    IF s.activeJobs <= MAX_CONCURRENCY /\ Len(s.jobQueue) > 0
    THEN LET nextJob == Head(s.jobQueue)
         IN  job([s EXCEPT !.jobQueue = Tail(s.jobQueue),
                           !.activeJobs = s.activeJobs + 1,
                           !.dispatched = Append(s.dispatched, nextJob.id)],
                 nextJob)
    ELSE s

\* processNextJob taking the newest thunk (pop) instead of the oldest (shift).
processNextJobLifo(s) ==
    IF s.activeJobs < MAX_CONCURRENCY /\ Len(s.jobQueue) > 0
    THEN LET nextJob == s.jobQueue[Len(s.jobQueue)]
         IN  job([s EXCEPT !.jobQueue = SubSeq(s.jobQueue, 1, Len(s.jobQueue) - 1),
                           !.activeJobs = s.activeJobs + 1,
                           !.dispatched = Append(s.dispatched, nextJob.id)],
                 nextJob)
    ELSE s

processNextJob(s) ==
    IF s.activeJobs < MAX_CONCURRENCY /\ Len(s.jobQueue) > 0
    THEN LET nextJob == Head(s.jobQueue)
         IN  job([s EXCEPT !.jobQueue = Tail(s.jobQueue),
                           !.activeJobs = s.activeJobs + 1,
                           !.dispatched = Append(s.dispatched, nextJob.id)],
                 nextJob)
    ELSE s

\* enqueueJob pushing the thunk without the processNextJob() call.
enqueueJobNoDispatch(s, j) ==
    [s EXCEPT !.jobQueue = Append(s.jobQueue, j)]

\* enqueueJob: push the thunk, then processNextJob.
enqueueJob(s, j) ==
    processNextJob([s EXCEPT !.jobQueue = Append(s.jobQueue, j)])

\* Writes a scheduler record back to the variables.
StoreFields(s) ==
    /\ activeJobs' = s.activeJobs
    /\ jobQueue' = s.jobQueue
    /\ worker' = s.worker
    /\ pendingOperations' = s.pendingOperations
    /\ future' = s.future
    /\ inbox' = s.inbox
    /\ dispatched' = s.dispatched

\* The record is computed once, then written back.
Store(s) == \E r \in {s} : StoreFields(r)

NoFile == [size |-> 0, type |-> <<"", "">>, bytes |-> <<>>,
           probe |-> [ok |-> FALSE, width |-> 0, height |-> 0]]
NoResult == [isValid |-> FALSE, error |-> "", detectedType |-> ""]

NoImage == [width |-> 0, height |-> 0, data |-> <<>>]
NoOutput == [buffer |-> <<>>, offset |-> 0, threw |-> FALSE]

BmpIdle ==
    /\ bimage = NoImage
    /\ bout = NoOutput
    /\ bpc = "idle"

\* No Blob (null).
NoBlob == [type |-> "", quality |-> -1, size |-> -1]

NoLocals ==
    [sourceX |-> 0, sourceY |-> 0, sourceWidth |-> 0, sourceHeight |-> 0,
     targetWidth |-> 0, targetHeight |-> 0, filled |-> FALSE,
     quality |-> -1, targetBytes |-> 0, minQ |-> 0, maxQ |-> 0,
     bestBlob |-> NoBlob, i |-> 0, phase |-> ""]

NoOutcome == [state |-> "none", blob |-> NoBlob, error |-> ""]

NoPlatform ==
    [decode |-> [ok |-> FALSE, width |-> 0, height |-> 0], ctx |-> FALSE,
     encoder |-> [steps |-> <<>>, throws |-> FALSE]]

NoOptions ==
    [format |-> "", quality |-> 0, width |-> 0, height |-> 0,
     crop |-> [present |-> FALSE, x |-> 0, y |-> 0, width |-> 0, height |-> 0],
     targetSizeKB |-> 0]

ProcessIdle ==
    /\ pfile = NoPlatform
    /\ poptions = NoOptions
    /\ plocal = NoLocals
    /\ psurfaces = <<>>
    /\ pexports = <<>>
    /\ pclosed = 0
    /\ presult = NoOutcome
    /\ ppc = "idle"

NoMerge ==
    [bitmaps |-> <<>>, closes |-> <<>>, surfaces |-> <<>>, draws |-> <<>>,
     exports |-> <<>>, cols |-> 0, rows |-> 0, maxCellW |-> 0, maxCellH |-> 0,
     result |-> NoOutcome]

MergeIdle ==
    /\ mfiles = <<>>
    /\ mplatform = "ok"
    /\ mmerge = NoMerge
    /\ mpc = "idle"

\* No timer was ever set (timeout is null).
NoTimeout == [image |-> [id |-> 0, options |-> 0], fired |-> TRUE]

UIIdle ==
    /\ images = <<>>
    /\ timeout = NoTimeout
    /\ calls = <<>>
    /\ submitted = <<>>
    /\ edits = 0

ValidatorIdle ==
    /\ vfile = NoFile
    /\ vresult = NoResult
    /\ vcalls = <<>>
    /\ vpc = "idle"

SchedInit ==
    /\ activeJobs = 0
    /\ jobQueue = <<>>
    /\ worker = 0
    /\ pendingOperations = {}
    /\ nextId = 1
    /\ future = [i \in Ids |-> Unsubmitted]
    /\ inbox = <<>>
    /\ executing = {}
    /\ outbox = <<>>
    /\ dispatched = <<>>
    /\ lastOp = "init"

Init ==
    /\ SchedInit
    /\ ValidatorIdle
    /\ BmpIdle
    /\ ProcessIdle
    /\ MergeIdle
    /\ UIIdle

\* processImageAsync / validateImageAsync: a new promise, a new id, enqueueJob.
Submit(type, h) ==
    /\ nextId <= MaxRequests
    /\ nextId' = nextId + 1
    /\ LET s == [Sched EXCEPT !.future = [future EXCEPT ![nextId] = Pending]]
       IN  Store(enqueueJob(s, [id |-> nextId, type |-> type, handoff |-> h]))
    /\ lastOp' = "submit"
    /\ UNCHANGED <<executing, outbox, libVars>>

\* The switch of self.onmessage throws before any await: PROCESS without
\* file or options, VALIDATE without file, any other type.
throwsAtOnce(m) ==
    IF m.type = "PROCESS" THEN ~m.file \/ ~m.options
    ELSE IF m.type = "VALIDATE" THEN ~m.file
    ELSE TRUE

\* self.onmessage dropping a message it cannot serve without a response.
WorkerStartSilent ==
    /\ worker # 0
    /\ inbox # <<>>
    /\ LET m == Head(inbox)
       IN  IF throwsAtOnce(m)
           THEN UNCHANGED <<executing, outbox>>
           ELSE /\ executing' = executing \cup {m}
                /\ outbox' = outbox
    /\ inbox' = Tail(inbox)
    /\ UNCHANGED <<activeJobs, jobQueue, worker, pendingOperations, nextId,
                   future, dispatched, lastOp, libVars>>

\* The worker takes the next message of its queue: self.onmessage starts and
\* runs up to its await (processImage / validateImageFile), or throws before
\* it and posts PROCESS_ERROR from its catch block in the same task.
WorkerStart ==
    /\ worker # 0
    /\ inbox # <<>>
    /\ LET m == Head(inbox)
       IN  IF throwsAtOnce(m)
           THEN /\ outbox' = Append(outbox, [id |-> m.id, type |-> "PROCESS_ERROR"])
                /\ executing' = executing
           ELSE /\ executing' = executing \cup {m}
                /\ outbox' = outbox
    /\ inbox' = Tail(inbox)
    /\ UNCHANGED <<activeJobs, jobQueue, worker, pendingOperations, nextId,
                   future, dispatched, lastOp, libVars>>

\* What the worker answers to a message whose transform it awaited.
ResponseTypes(type) ==
    IF type = "PROCESS" THEN {"PROCESS_COMPLETE", "PROCESS_ERROR"}
    ELSE {"VALIDATE_RESULT", "PROCESS_ERROR"}

\* The awaited transform of request id ends and the worker posts its response.
WorkerFinish(m, rtype) ==
    /\ worker # 0
    /\ m \in executing
    /\ rtype \in ResponseTypes(m.type)
    /\ executing' = executing \ {m}
    /\ outbox' = Append(outbox, [id |-> m.id, type |-> rtype])
    /\ UNCHANGED <<activeJobs, jobQueue, worker, pendingOperations, nextId,
                   future, inbox, dispatched, lastOp, libVars>>

\* onmessage releasing the slot without the processNextJob() call.
onmessageKnownNoDispatch(s, resp) ==
    LET freed == [s EXCEPT !.pendingOperations = s.pendingOperations \ {resp.id},
                           !.activeJobs = s.activeJobs - 1]
    IN  IF resp.type = "PROCESS_ERROR"
        THEN [freed EXCEPT !.future = Settle(freed.future, resp.id, Rejected("response.error"))]
        ELSE [freed EXCEPT !.future = Settle(freed.future, resp.id, Resolved)]

\* onmessage treating PROCESS_ERROR as fatal for every pending operation.
onmessageKnownRejectAll(s, resp) ==
    LET freed == [s EXCEPT !.pendingOperations = s.pendingOperations \ {resp.id},
                           !.activeJobs = s.activeJobs - 1]
        next  == processNextJob(freed)
    IN  IF resp.type = "PROCESS_ERROR"
        THEN [next EXCEPT !.future = SettleAll(next.future, s.pendingOperations,
                                               Rejected("response.error"))]
        ELSE [next EXCEPT !.future = Settle(next.future, resp.id, Resolved)]

\* worker.onmessage on a response whose id is in the pending map.
onmessageKnown(s, resp) ==
    LET freed == [s EXCEPT !.pendingOperations = s.pendingOperations \ {resp.id},
                           !.activeJobs = s.activeJobs - 1]
        next  == processNextJob(freed)
    IN  IF resp.type = "PROCESS_ERROR"
        THEN [next EXCEPT !.future = Settle(next.future, resp.id, Rejected("response.error"))]
        ELSE IF resp.type = "PROCESS_COMPLETE"
        THEN [next EXCEPT !.future = Settle(next.future, resp.id, Resolved)]
        ELSE IF resp.type = "VALIDATE_RESULT"
        THEN [next EXCEPT !.future = Settle(next.future, resp.id, Resolved)]
        ELSE next

\* The unknown-id branch releasing a slot all the same (the alternative its
\* comment weighs).
onmessageUnknownFreesSlot(s, resp) ==
    processNextJob([s EXCEPT !.activeJobs = s.activeJobs - 1])

\* worker.onmessage on a response whose id is not in the pending map.
onmessageUnknown(s, resp) == s

\* worker.onmessage: the main thread handles the oldest posted response.
onmessage(s, resp) ==
    IF resp.id \in s.pendingOperations
    THEN onmessageKnown(s, resp)
    ELSE onmessageUnknown(s, resp)

OnMessage ==
    /\ outbox # <<>>
    /\ LET resp == Head(outbox)
       IN  /\ Store(onmessage(Sched, resp))
           /\ lastOp' = IF resp.id \in pendingOperations
                        THEN "response" ELSE "unknown"
    /\ outbox' = Tail(outbox)
    /\ UNCHANGED <<nextId, executing, libVars>>

\* onerror leaving the dead worker in place (no `worker = null`).
onerrorKeepsWorker(s) ==
    [s EXCEPT !.future = SettleAll(s.future, s.pendingOperations,
                                   Rejected("Worker crashed")),
              !.pendingOperations = {},
              !.activeJobs = 0,
              !.jobQueue = <<>>]

\* worker.onerror.
onerror(s) ==
    [s EXCEPT !.future = SettleAll(s.future, s.pendingOperations,
                                   Rejected("Worker crashed")),
              !.pendingOperations = {},
              !.activeJobs = 0,
              !.jobQueue = <<>>,
              !.worker = 0,
              !.inbox = <<>>]

\* The worker raises a fatal error; onerror runs on the main thread and
\* terminates the worker, which ends whatever the worker was doing.
Crash ==
    /\ worker # 0
    /\ Store(onerror(Sched))
    /\ executing' = {}
    /\ lastOp' = "crash"
    /\ UNCHANGED <<nextId, outbox, libVars>>

\* terminateWorker forgetting `activeJobs = 0`.
terminateWorkerKeepsSlots(s) ==
    [s EXCEPT !.worker = 0,
              !.pendingOperations = {},
              !.jobQueue = <<>>,
              !.inbox = <<>>]

\* terminateWorker().
terminateWorker(s) ==
    [s EXCEPT !.worker = 0,
              !.pendingOperations = {},
              !.jobQueue = <<>>,
              !.activeJobs = 0,
              !.inbox = <<>>]

TerminateWorker ==
    /\ Store(terminateWorker(Sched))
    /\ executing' = {}
    /\ lastOp' = "terminate"
    /\ UNCHANGED <<nextId, outbox, libVars>>

Next ==
    \/ \E type \in {"PROCESS", "VALIDATE"}, h \in Handoffs : Submit(type, h)
    \/ WorkerStart
    \/ \E m \in executing,
          rtype \in {"PROCESS_COMPLETE", "VALIDATE_RESULT", "PROCESS_ERROR"} :
          WorkerFinish(m, rtype)
    \/ OnMessage
    \/ Crash
    \/ TerminateWorker

Spec == Init /\ [][Next]_vars

(***************************************************************************)
(* Validator part (lib/fileValidation.ts).  A File is its size, its        *)
(* declared MIME type (category, subtype), its leading bytes and what      *)
(* createImageBitmap makes of it: it throws (ok = FALSE) or gives a bitmap  *)
(* of some width and height.                                               *)
(***************************************************************************)

\* Uint8Array indexing: header[index], undefined (-1) past the end.
HeaderByte(header, index) ==
    IF index < Len(header) THEN header[index + 1] ELSE -1

\* FILE_SIGNATURES, in the order Object.entries yields them.
FILE_SIGNATURES ==
    << [mimeType |-> "image/jpeg",
        signatures |-> << <<255, 216, 255, 224>>,
                          <<255, 216, 255, 225>>,
                          <<255, 216, 255, 232>>,
                          <<255, 216, 255, 219>> >>],
       [mimeType |-> "image/png",
        signatures |-> << <<137, 80, 78, 71, 13, 10, 26, 10>> >>],
       [mimeType |-> "image/webp",
        signatures |-> << <<82, 73, 70, 70>> >>],
       [mimeType |-> "image/bmp",
        signatures |-> << <<66, 77>> >>],
       [mimeType |-> "image/gif",
        signatures |-> << <<71, 73, 70, 56, 55, 97>>,
                          <<71, 73, 70, 56, 57, 97>> >>] >>

\* readFileHeader: file.slice(0, bytes).
readFileHeader(file, bytes) ==
    SubSeq(file.bytes, 1, IF bytes < Len(file.bytes) THEN bytes ELSE Len(file.bytes))

matchesSignature(header, signatures) ==
    \E k \in DOMAIN signatures :
        \A i \in DOMAIN signatures[k] :
            HeaderByte(header, i - 1) = signatures[k][i]

\* isWebP accepting any RIFF container (the nested tag check left out).
isWebPRiffOnly(file) ==
    LET header == readFileHeader(file, 12)
    IN  /\ HeaderByte(header, 0) = 82 /\ HeaderByte(header, 1) = 73
        /\ HeaderByte(header, 2) = 70 /\ HeaderByte(header, 3) = 70

isWebP(file) ==
    LET header == readFileHeader(file, 12)
        isRIFF == /\ HeaderByte(header, 0) = 82 /\ HeaderByte(header, 1) = 73
                  /\ HeaderByte(header, 2) = 70 /\ HeaderByte(header, 3) = 70
        isWEBP == /\ HeaderByte(header, 8) = 87 /\ HeaderByte(header, 9) = 69
                  /\ HeaderByte(header, 10) = 66 /\ HeaderByte(header, 11) = 80
    IN  isRIFF /\ isWEBP

\* detectImageType: the first entry of FILE_SIGNATURES that matches, or "null".
detectImageType(file) ==
    LET header == readFileHeader(file, 16)
        Matches(k) ==
            IF FILE_SIGNATURES[k].mimeType = "image/webp"
            THEN isWebP(file)
            ELSE matchesSignature(header, FILE_SIGNATURES[k].signatures)
        hits == {k \in DOMAIN FILE_SIGNATURES : Matches(k)}
    IN  IF hits = {} THEN "null"
        ELSE FILE_SIGNATURES[CHOOSE k \in hits : \A m \in hits : k <= m].mimeType

\* checkDimensions without the total-pixel test.
checkDimensionsNoPixelLimit(file) ==
    IF ~file.probe.ok THEN FALSE
    ELSE IF file.probe.width > MAX_WIDTH \/ file.probe.height > MAX_HEIGHT THEN FALSE
    ELSE TRUE

\* checkDimensions: false when createImageBitmap throws or a limit is passed.
checkDimensions(file) ==
    IF ~file.probe.ok THEN FALSE
    ELSE IF file.probe.width > MAX_WIDTH \/ file.probe.height > MAX_HEIGHT THEN FALSE
    ELSE IF file.probe.width * file.probe.height > MAX_PIXELS THEN FALSE
    ELSE TRUE

Invalid(e) == [isValid |-> FALSE, error |-> e, detectedType |-> ""]

\* validateImageFile testing the MIME type before the size limit.
validateImageFileMimeFirst(file) ==
    IF file.size = 0 THEN Invalid("File is empty (0 bytes)")
    ELSE IF file.type[1] # "image" THEN Invalid("Invalid MIME type")
    ELSE IF file.size > MAX_FILE_SIZE THEN Invalid("File size exceeds limit")
    ELSE LET detectedType == detectImageType(file)
         IN  IF detectedType = "null"
             THEN Invalid("File header does not match any supported image format")
             ELSE IF ~checkDimensions(file)
             THEN Invalid("Image exceeds maximum safe dimensions")
             ELSE [isValid |-> TRUE, error |-> "", detectedType |-> detectedType]

validateImageFile(file) ==
    IF file.size = 0 THEN Invalid("File is empty (0 bytes)")
    ELSE IF file.size > MAX_FILE_SIZE THEN Invalid("File size exceeds limit")
    ELSE IF file.type[1] # "image" THEN Invalid("Invalid MIME type")
    ELSE LET detectedType == detectImageType(file)
         IN  IF detectedType = "null"
             THEN Invalid("File header does not match any supported image format")
             ELSE IF ~checkDimensions(file)
             THEN Invalid("Image exceeds maximum safe dimensions")
             ELSE [isValid |-> TRUE, error |-> "", detectedType |-> detectedType]

\* The reads detectImageType makes: the 16-byte header, and the 12-byte
\* header of isWebP if the loop gets as far as the image/webp entry.
detectImageTypeCalls(file) ==
    LET header == readFileHeader(file, 16)
        webp == CHOOSE k \in DOMAIN FILE_SIGNATURES :
                    FILE_SIGNATURES[k].mimeType = "image/webp"
        returnsBefore ==
            \E k \in 1..(webp - 1) :
                matchesSignature(header, FILE_SIGNATURES[k].signatures)
    IN  IF returnsBefore THEN <<"slice(0,16)">>
        ELSE <<"slice(0,16)", "slice(0,12)">>

\* The platform calls validateImageFile makes before it returns: file.slice
\* reads of the header and the createImageBitmap decode probe.
validateImageFileCalls(file) ==
    IF file.size = 0 THEN <<>>
    ELSE IF file.size > MAX_FILE_SIZE THEN <<>>
    ELSE IF file.type[1] # "image" THEN <<>>
    ELSE IF detectImageType(file) = "null" THEN detectImageTypeCalls(file)
    ELSE detectImageTypeCalls(file) \o <<"createImageBitmap">>

\* ---- the files the validator is tried on
\* Leading bytes of real files: the allowlisted headers, and headers of
\* formats that are not on the list.
BaseHeaders ==
    { <<255, 216, 255, 224>>,                              \* JPEG / JFIF
      <<255, 216, 255, 225>>,                              \* JPEG / Exif
      <<255, 216, 255, 232>>,                              \* JPEG / SPIFF
      <<255, 216, 255, 219>>,                              \* JPEG, raw
      <<255, 216, 255, 238>>,                              \* JPEG / Adobe (APP14)
      <<137, 80, 78, 71, 13, 10, 26, 10>>,                 \* PNG
      <<82, 73, 70, 70, 36, 0, 0, 0, 87, 69, 66, 80>>,     \* RIFF....WEBP
      <<82, 73, 70, 70, 36, 0, 0, 0, 87, 65, 86, 69>>,     \* RIFF....WAVE
      <<66, 77>>,                                          \* BM
      <<71, 73, 70, 56, 55, 97>>,                          \* GIF87a
      <<71, 73, 70, 56, 57, 97>>,                          \* GIF89a
      <<0, 0, 0, 32, 102, 116, 121, 112, 97, 118, 105, 102>> }   \* ....ftypavif

\* s followed by zero bytes up to MaxBytes.
Pad(s) == [i \in 1..MaxBytes |-> IF i <= Len(s) THEN s[i] ELSE 0]

\* Every prefix of a padded base header, intact or with one byte replaced.
FileBytes ==
    {SubSeq(Pad(s), 1, n) : s \in BaseHeaders, n \in 0..MaxBytes}
    \cup {SubSeq([Pad(s) EXCEPT ![p] = v], 1, n) :
              s \in BaseHeaders, n \in 1..MaxBytes, p \in 1..12, v \in {1, 224}}

MimeTypes == { <<"image", "jpeg">>, <<"text", "plain">>, <<"", "">> }

Probes ==
    {[ok |-> FALSE, width |-> 0, height |-> 0]} \cup
    {[ok |-> TRUE, width |-> d[1], height |-> d[2]] :
        d \in { <<1, 1>>, <<15000, 1>>, <<15001, 1>>, <<1, 15001>>,
                <<7071, 7071>>, <<7072, 7072>> }}

\* file.size: the bytes at hand are the whole file unless all MaxBytes are
\* there, in which case the file may go on beyond them.
FileSizes(b) ==
    {Len(b)} \cup (IF Len(b) >= 16 THEN {MAX_FILE_SIZE, MAX_FILE_SIZE + 1} ELSE {})

ValidateInit ==
    /\ SchedInit
    /\ \E b \in FileBytes :
          vfile \in {[size |-> size, type |-> t, bytes |-> b, probe |-> pr] :
                        size \in FileSizes(b), t \in MimeTypes, pr \in Probes}
    /\ vresult = NoResult
    /\ vcalls = <<>>
    /\ vpc = "start"
    /\ BmpIdle
    /\ ProcessIdle
    /\ MergeIdle
    /\ UIIdle

\* One call of validateImageFile on the file.
Validate ==
    /\ vpc = "start"
    /\ vresult' = validateImageFile(vfile)
    /\ vcalls' = validateImageFileCalls(vfile)
    /\ vpc' = "done"
    /\ UNCHANGED <<vfile, schedVars, bmpVars, processVars, mergeVars, uiVars>>

ValidateSpec == ValidateInit /\ [][Validate]_vars

(***************************************************************************)
(* Bitmap codec (lib/bmpEncoder.ts).  An ImageData is its width, its       *)
(* height and its data, 4 bytes (R, G, B, A) per pixel, row after row.     *)
(* The DataView is the buffer under it; a write outside the buffer throws  *)
(* a RangeError, which ends encodeBMP.                                     *)
(***************************************************************************)

\* data[i] of a typed array: undefined past the end, which a DataView setter
\* stores as 0.
DataByte(data, i) == IF i < Len(data) THEN data[i + 1] ELSE 0

\* view.setUint8(byteOffset, value).
setUint8(view, byteOffset, value) ==
    IF view.threw THEN view
    ELSE IF byteOffset + 1 > Len(view.buffer) THEN [view EXCEPT !.threw = TRUE]
    ELSE [view EXCEPT !.buffer[byteOffset + 1] = value % 256]

\* view.setUint16(byteOffset, value, littleEndian).
setUint16(view, byteOffset, value, littleEndian) ==
    LET v  == value % 65536
        lo == v % 256
        hi == v \div 256
    IN  IF view.threw THEN view
        ELSE IF byteOffset + 2 > Len(view.buffer) THEN [view EXCEPT !.threw = TRUE]
        ELSE IF littleEndian
        THEN setUint8(setUint8(view, byteOffset, lo), byteOffset + 1, hi)
        ELSE setUint8(setUint8(view, byteOffset, hi), byteOffset + 1, lo)

\* Byte k (0 = lowest) of the 32-bit two's-complement pattern of value,
\* for value in -2^31 .. 2^31 - 1.
Int32Byte(value, k) ==
    LET u == IF value >= 0 THEN value ELSE (value + 2147483647) + 1
        b == IF k = 0 THEN u % 256
             ELSE IF k = 1 THEN (u \div 256) % 256
             ELSE IF k = 2 THEN (u \div 65536) % 256
             ELSE u \div 16777216
    IN  IF value < 0 /\ k = 3 THEN b + 128 ELSE b

\* view.setUint32(byteOffset, value, true): low byte first.
setUint32(view, byteOffset, value) ==
    IF view.threw THEN view
    ELSE IF byteOffset + 4 > Len(view.buffer) THEN [view EXCEPT !.threw = TRUE]
    ELSE setUint8(setUint8(setUint8(setUint8(view,
             byteOffset, Int32Byte(value, 0)),
             byteOffset + 1, Int32Byte(value, 1)),
             byteOffset + 2, Int32Byte(value, 2)),
             byteOffset + 3, Int32Byte(value, 3))

\* view.setInt32(byteOffset, value, true): two's complement of value.
setInt32(view, byteOffset, value) == setUint32(view, byteOffset, value)

\* new DataView(new ArrayBuffer(fileSize)): fileSize zero bytes.
newDataView(fileSize) ==
    [buffer |-> [i \in 1..fileSize |-> 0], offset |-> 0, threw |-> FALSE]

\* The two headers (lines 20-38).
bmpHeaders(view, width, height, fileSize) ==
    LET h1  == setUint16(view, 0, 16973, FALSE)
        h2  == setUint32(h1, 2, fileSize)
        h3  == setUint16(h2, 6, 0, TRUE)
        h4  == setUint16(h3, 8, 0, TRUE)
        h5  == setUint32(h4, 10, 54)
        d1  == setUint32(h5, 14, 40)
        d2  == setInt32(d1, 18, width)
        d3  == setInt32(d2, 22, 0 - height)
        d4  == setUint16(d3, 26, 1, TRUE)
        d5  == setUint16(d4, 28, 24, TRUE)
        d6  == setUint32(d5, 30, 0)
        d7  == setUint32(d6, 34, 0)
        d8  == setInt32(d7, 38, 2835)
        d9  == setInt32(d8, 42, 2835)
        d10 == setUint32(d9, 46, 0)
    IN  setUint32(d10, 50, 0)

\* One write of the pixel loops: view.setUint8(offset++, value).
put(view, value) ==
    IF view.threw THEN view
    ELSE [setUint8(view, view.offset, value) EXCEPT !.offset = view.offset + 1]

\* The body of the x loop writing R, G, B in the order of the source array.
bmpPixelRgbOrder(view, data, i) ==
    put(put(put(view, DataByte(data, i)), DataByte(data, i + 1)), DataByte(data, i + 2))

\* The body of the x loop (lines 44-48): B, G, R; alpha is not written.
bmpPixel(view, data, i) ==
    put(put(put(view, DataByte(data, i + 2)), DataByte(data, i + 1)), DataByte(data, i))

\* for (let x = ...; x < width; x++) of row y.
RECURSIVE bmpPixelLoop(_, _, _, _, _)
bmpPixelLoop(view, data, width, y, x) ==
    IF x < width /\ ~view.threw
    THEN bmpPixelLoop(bmpPixel(view, data, (y * width + x) * 4), data, width, y, x + 1)
    ELSE view

\* for (let p = ...; p < padding; p++).
RECURSIVE bmpPaddingLoop(_, _, _)
bmpPaddingLoop(view, padding, p) ==
    IF p < padding /\ ~view.threw
    THEN bmpPaddingLoop(put(view, 0), padding, p + 1)
    ELSE view

\* for (let y = ...; y < height; y++).
RECURSIVE bmpRowLoop(_, _, _, _, _, _)
bmpRowLoop(view, data, width, height, padding, y) ==
    IF y < height /\ ~view.threw
    THEN bmpRowLoop(bmpPaddingLoop(bmpPixelLoop(view, data, width, y, 0), padding, 0),
                    data, width, height, padding, y + 1)
    ELSE view

\* encodeBMP with the padding computed without the outer `% 4`.
encodeBMPPadNoMod(imageData) ==
    LET width    == imageData.width
        height   == imageData.height
        padding  == 4 - ((width * 3) % 4)
        fileSize == 54 + (width * 3 + padding) * height
        view     == bmpHeaders(newDataView(fileSize), width, height, fileSize)
    IN  bmpRowLoop([view EXCEPT !.offset = 54], imageData.data, width, height, padding, 0)

\* encodeBMP: the buffer of the Blob it returns, with the final value of
\* `offset`.
encodeBMP(imageData) ==
    LET width    == imageData.width
        height   == imageData.height
        padding  == (4 - ((width * 3) % 4)) % 4
        fileSize == 54 + (width * 3 + padding) * height
        view     == bmpHeaders(newDataView(fileSize), width, height, fileSize)
    IN  bmpRowLoop([view EXCEPT !.offset = 54], imageData.data, width, height, padding, 0)

\* ---- the images the codec is tried on
\* data[i] = (a * i + b) mod 256 for a pair <<a, b>>: flat images, ramps, and
\* images whose four channels differ in every pixel.
PixelPatterns == { <<0, 0>>, <<0, 255>>, <<1, 0>>, <<7, 3>>, <<37, 101>>, <<85, 200>> }

ImageDatas ==
    {[width |-> w, height |-> h,
      data |-> [i \in 1..(w * h * 4) |-> (pt[1] * (i - 1) + pt[2]) % 256]] :
         w \in 0..MaxSide, h \in 0..MaxSide, pt \in PixelPatterns}

EncodeInit ==
    /\ SchedInit
    /\ ValidatorIdle
    /\ bimage \in ImageDatas
    /\ bout = NoOutput
    /\ bpc = "start"
    /\ ProcessIdle
    /\ MergeIdle
    /\ UIIdle

\* One call of encodeBMP on the image.
Encode ==
    /\ bpc = "start"
    /\ bout' = encodeBMP(bimage)
    /\ bpc' = "done"
    /\ UNCHANGED <<bimage, schedVars, validatorVars, processVars, mergeVars, uiVars>>

EncodeSpec == EncodeInit /\ [][Encode]_vars

(***************************************************************************)
(* Transform engine (lib/imageProcessor.ts), processImage.  Lengths that   *)
(* the caller supplies (options.width, options.height, the crop) are kept  *)
(* in half pixels, so that Math.round has something to round: the value 3  *)
(* is 1.5 px.  Qualities are kept in units of 1/3200: 0.01 is 32, 1.00 is  *)
(* 3200, and every midpoint of the 5 halvings of [0.01, 1.00] is a whole   *)
(* number of units.  One action is the code between two awaits.            *)
(***************************************************************************)

\* Math.round of h half pixels: the nearest integer, a half going up.
MathRound(h) == (h + 1) \div 2
MathMin(a, b) == IF a < b THEN a ELSE b
MathMax(a, b) == IF a > b THEN a ELSE b

\* The quality n / 100.
Q(n) == 32 * n

\* The size of the Blob canvas.convertToBlob gives at a quality (a negative
\* quality is `undefined`: the encoder's own default).  An encoder is a
\* staircase: steps[k] = <<q, size>> gives the size from quality q upwards.
EncodedSize(encoder, quality) ==
    LET at == {k \in DOMAIN encoder.steps : encoder.steps[k][1] <= quality}
    IN  IF quality < 0 THEN encoder.steps[Len(encoder.steps)][2]
        ELSE encoder.steps[CHOOSE k \in at : \A m \in at : m <= k][2]

\* fileSize of encodeBMP (bmpEncoder.ts:14-15).
bmpFileSize(width, height) ==
    54 + (width * 3 + ((4 - ((width * 3) % 4)) % 4)) * height

\* The call as the variables hold it.
Proc ==
    [local |-> plocal, surfaces |-> psurfaces, exports |-> pexports,
     closed |-> pclosed, result |-> presult, pc |-> ppc]

\* `return blob` / `throw` inside the try: the finally block closes the
\* bitmap on the way out.
return(c, blob) ==
    [c EXCEPT !.result = [state |-> "returned", blob |-> blob, error |-> ""],
              !.closed = c.closed + 1,
              !.pc = "done"]

throw(c, e) ==
    [c EXCEPT !.result = [state |-> "thrown", blob |-> NoBlob, error |-> e],
              !.closed = c.closed + 1,
              !.pc = "done"]

\* await canvas.convertToBlob({type, quality}): the call is made and
\* processImage waits for it.
convertToBlob(c, type, quality, phase) ==
    [c EXCEPT !.exports = Append(c.exports, [call |-> "convertToBlob", type |-> type,
                                             quality |-> quality, size |-> -1,
                                             settled |-> FALSE]),
              !.local.phase = phase,
              !.pc = "export"]

\* The clamp without its lower end (no Math.max(1, ...)).
targetSideNoFloor(requested, limit) == MathMin(MathRound(requested), limit)

\* Math.max(1, Math.min(Math.round(requested), limit)) (lines 38-39).
targetSide(requested, limit) == MathMax(1, MathMin(MathRound(requested), limit))

\* The size-search test without the format test.
usesSizeSearchAnyFormat(options) ==
    options.targetSizeKB # 0 /\ options.targetSizeKB > 0

\* The condition of the Resize by Weight branch (line 96); 0 is the falsy
\* targetSizeKB, which an absent field is too.
usesSizeSearch(options) ==
    /\ options.targetSizeKB # 0
    /\ options.targetSizeKB > 0
    /\ options.format \in {"jpeg", "webp"}

\* The export logic (lines 79-133) up to its first await or return.
exportLogic(c, options) ==
    IF options.format = "bmp"
    THEN LET size == bmpFileSize(c.local.targetWidth, c.local.targetHeight)
             bmpBlob == [type |-> "image/bmp", quality |-> -1, size |-> size]
             e == [call |-> "encodeBMP", type |-> "image/bmp", quality |-> -1,
                   size |-> size, settled |-> TRUE]
         IN  return([c EXCEPT !.exports = Append(c.exports, e)], bmpBlob)
    ELSE LET mimeType == IF options.format = "jpeg" THEN "image/jpeg"
                         ELSE IF options.format = "webp" THEN "image/webp"
                         ELSE "image/png"
             quality  == IF options.format \in {"jpeg", "webp"}
                         THEN Q(options.quality) ELSE -1
             q == [c EXCEPT !.local.quality = quality]
         IN  IF usesSizeSearch(options)
             THEN LET l == [q EXCEPT !.local.targetBytes = options.targetSizeKB * 1024,
                                     !.local.minQ = Q(1),
                                     !.local.maxQ = Q(100),
                                     !.local.bestBlob = NoBlob]
                  IN  convertToBlob(l, mimeType, l.local.maxQ, "first")
             ELSE convertToBlob(q, mimeType, quality, "normal")

\* processImage from the decoded bitmap to its first await, return or throw
\* (lines 23-133).
processImageBody(c, file, options) ==
    LET crop    == options.crop
        useCrop == crop.present /\ crop.width > 0 /\ crop.height > 0
        l == [c EXCEPT
                !.local.sourceX = IF useCrop THEN MathRound(crop.x) ELSE 0,
                !.local.sourceY = IF useCrop THEN MathRound(crop.y) ELSE 0,
                !.local.sourceWidth = IF useCrop THEN MathRound(crop.width)
                                      ELSE file.decode.width,
                !.local.sourceHeight = IF useCrop THEN MathRound(crop.height)
                                       ELSE file.decode.height,
                !.local.targetWidth = targetSide(options.width, MAX_WIDTH),
                !.local.targetHeight = targetSide(options.height, MAX_HEIGHT)]
    IN  IF l.local.targetWidth * l.local.targetHeight > MAX_PIXELS
        THEN throw(l, "Output dimensions exceed safety limit")
        ELSE LET canvas == [l EXCEPT !.surfaces =
                               Append(l.surfaces, [width |-> l.local.targetWidth,
                                                   height |-> l.local.targetHeight])]
             IN  IF ~file.ctx
                 THEN throw(canvas, "Could not get canvas 2D context")
                 ELSE exportLogic([canvas EXCEPT !.local.filled =
                                      options.format \in {"jpeg", "bmp"}],
                                  options)

\* processImage from its call to its first await, return or throw.  A
\* createImageBitmap that rejects throws before the try: nothing to close.
processImage(c, file, options) ==
    IF ~file.decode.ok
    THEN [c EXCEPT !.result = [state |-> "thrown", blob |-> NoBlob,
                               error |-> "createImageBitmap"],
                   !.pc = "done"]
    ELSE processImageBody(c, file, options)

\* The loop test with one iteration too many.
searchGoesOnSix(i) == i < 6

\* The loop test `i < 5` (line 109).
searchGoesOn(i) == i < 5

\* The probe test with `<=` for `<`.
afterProbeAtMost(l, attempt) ==
    IF attempt.size <= l.targetBytes
    THEN [l EXCEPT !.bestBlob = attempt, !.minQ = attempt.quality]
    ELSE [l EXCEPT !.maxQ = attempt.quality]

\* Lines 113-118: the probe at midQ came back as `attempt`.
afterProbe(l, attempt) ==
    IF attempt.size < l.targetBytes
    THEN [l EXCEPT !.bestBlob = attempt, !.minQ = attempt.quality]
    ELSE [l EXCEPT !.maxQ = attempt.quality]

\* The next probe of the loop: midQ = (minQ + maxQ) / 2 (lines 110-111).
probe(c, type) ==
    convertToBlob(c, type, (c.local.minQ + c.local.maxQ) \div 2, "search")

\* The fallback exporting at the highest quality instead of the lowest.
afterLoopFallbackMax(c, type) ==
    IF c.local.bestBlob # NoBlob
    THEN return(c, c.local.bestBlob)
    ELSE convertToBlob(c, type, Q(100), "fallback")

\* Lines 121-123: after the loop.
afterLoop(c, type) ==
    IF c.local.bestBlob # NoBlob
    THEN return(c, c.local.bestBlob)
    ELSE convertToBlob(c, type, Q(1), "fallback")

\* processImage from the settling of the convertToBlob it awaits to its next
\* await, return or throw.
processImageResume(c, file) ==
    LET n == Len(c.exports)
        e == c.exports[n]
    IN  IF file.encoder.throws
        THEN throw([c EXCEPT !.exports[n].settled = TRUE], "convertToBlob")
        ELSE LET attempt == [type |-> e.type, quality |-> e.quality,
                             size |-> EncodedSize(file.encoder, e.quality)]
                 d == [c EXCEPT !.exports[n].settled = TRUE,
                                !.exports[n].size = attempt.size]
             IN  IF c.local.phase = "first"
                 THEN IF attempt.size <= c.local.targetBytes
                      THEN return(d, attempt)
                      ELSE probe([d EXCEPT !.local.i = 0], e.type)
                 ELSE IF c.local.phase = "search"
                 THEN LET u == [d EXCEPT !.local = afterProbe(d.local, attempt),
                                         !.local.i = d.local.i + 1]
                      IN  IF searchGoesOn(u.local.i)
                          THEN probe(u, e.type)
                          ELSE afterLoop(u, e.type)
                 ELSE \* the fallback export, or the normal export
                      return(d, attempt)

\* Writes the call back to the variables.
StoreProc(c) ==
    \E r \in {c} :
        /\ plocal' = r.local
        /\ psurfaces' = r.surfaces
        /\ pexports' = r.exports
        /\ pclosed' = r.closed
        /\ presult' = r.result
        /\ ppc' = r.pc

\* ---- the calls processImage is tried on
\* Requested width and height, in half pixels: 1 x 1, 0 x 0, -5 x 3,
\* 0.5 x 1.5, -0.5 x 1, 15000 x 1, 15000.5 x 1, 20000 x 20000, 7071 x 7071,
\* 7072 x 7072.
RequestedSizes ==
    { <<2, 2>>, <<0, 0>>, <<-10, 6>>, <<1, 3>>, <<-1, 2>>, <<30000, 2>>,
      <<30001, 2>>, <<40000, 40000>>, <<14142, 14142>>, <<14144, 14144>> }

\* No crop, a crop of 20 x 30 at (10.5, 0), a crop of width 0.
Crops ==
    { [present |-> FALSE, x |-> 0, y |-> 0, width |-> 0, height |-> 0],
      [present |-> TRUE, x |-> 21, y |-> 0, width |-> 40, height |-> 60],
      [present |-> TRUE, x |-> 0, y |-> 0, width |-> 0, height |-> 10] }

ProcessOptions ==
    {[format |-> f, quality |-> q, width |-> d[1], height |-> d[2],
      crop |-> cr, targetSizeKB |-> t] :
        f \in {"jpeg", "png", "webp", "bmp"}, q \in {1, 80}, d \in RequestedSizes,
        cr \in Crops, t \in {-1, 0, 1, 2}}

\* Encoders whose size grows with the quality (some touching 1024 and 2048
\* bytes exactly, one under 1024 bytes at quality 0.01 only), encoders whose
\* size does not, and an encoder that fails.
Encoders ==
    {[steps |-> st, throws |-> FALSE] :
        st \in { << <<0, 500>> >>,
                 << <<0, 3000>> >>,
                 << <<0, 500>>, <<1000, 1024>>, <<2000, 1025>> >>,
                 << <<0, 1023>>, <<1616, 1024>>, <<3200, 2048>> >>,
                 << <<0, 900>>, <<33, 2000>> >>,
                 << <<0, 1024>>, <<3200, 1025>> >>,
                 << <<0, 2047>>, <<2500, 2048>>, <<3000, 2049>> >>,
                 << <<0, 3000>>, <<1000, 500>>, <<2000, 3000>> >>,
                 << <<0, 2000>>, <<3000, 800>>, <<3200, 5000>> >> }}
    \cup {[steps |-> << <<0, 500>> >>, throws |-> TRUE]}

\* What the platform does with the file and the canvas: a file that does not
\* decode; a canvas without a 2D context; bitmaps of 100 x 50 and of
\* 20000 x 20000 with each encoder.
Platforms ==
    {[decode |-> [ok |-> FALSE, width |-> 0, height |-> 0], ctx |-> TRUE,
      encoder |-> [steps |-> << <<0, 500>> >>, throws |-> FALSE]],
     [decode |-> [ok |-> TRUE, width |-> 100, height |-> 50], ctx |-> FALSE,
      encoder |-> [steps |-> << <<0, 500>> >>, throws |-> FALSE]]}
    \cup {[decode |-> [ok |-> TRUE, width |-> d[1], height |-> d[2]], ctx |-> TRUE,
           encoder |-> enc] :
              d \in { <<100, 50>>, <<20000, 20000>> }, enc \in Encoders}

ProcessInit ==
    /\ SchedInit
    /\ ValidatorIdle
    /\ BmpIdle
    /\ pfile \in Platforms
    /\ poptions \in ProcessOptions
    /\ plocal = NoLocals
    /\ psurfaces = <<>>
    /\ pexports = <<>>
    /\ pclosed = 0
    /\ presult = NoOutcome
    /\ ppc = "start"
    /\ MergeIdle
    /\ UIIdle

\* processImage is called and runs to its first await, return or throw.
ProcessImage ==
    /\ ppc = "start"
    /\ StoreProc(processImage(Proc, pfile, poptions))
    /\ UNCHANGED <<pfile, poptions, schedVars, validatorVars, bmpVars, mergeVars,
                   uiVars>>

\* The convertToBlob processImage awaits settles and processImage goes on.
ExportSettles ==
    /\ ppc = "export"
    /\ StoreProc(processImageResume(Proc, pfile))
    /\ UNCHANGED <<pfile, poptions, schedVars, validatorVars, bmpVars, mergeVars,
                   uiVars>>

ProcessNext == ProcessImage \/ ExportSettles

ProcessSpec == ProcessInit /\ [][ProcessNext]_vars

(***************************************************************************)
(* Transform engine, mergeImages.  The drawImage positions are kept in     *)
(* half pixels, as (maxCellW - bmp.width) / 2 may be a half.               *)
(***************************************************************************)

\* Math.ceil(Math.sqrt(count)).
CeilSqrt(count) ==
    CHOOSE c \in 0..count : c * c >= count /\ (c = 0 \/ (c - 1) * (c - 1) < count)

\* Math.ceil(a / b) for b > 0.
CeilDiv(a, b) == (a + b - 1) \div b

\* Math.max(...values) of a non-empty sequence.
MaxOf(values) ==
    CHOOSE v \in {values[k] : k \in DOMAIN values} :
        \A k \in DOMAIN values : values[k] <= v

\* The finally block: every bitmap decoded so far is closed.
mergeFinally(m) ==
    [m EXCEPT !.closes = [k \in DOMAIN m.bitmaps |-> m.closes[k] + 1]]

\* A throw that skips the finally block.
mergeThrowNoFinally(m, e) ==
    [m EXCEPT !.result = [state |-> "thrown", blob |-> NoBlob, error |-> e]]

mergeThrow(m, e) ==
    mergeFinally([m EXCEPT !.result = [state |-> "thrown", blob |-> NoBlob,
                                       error |-> e]])

\* The decode loop (lines 168-172) from file k on; a createImageBitmap that
\* rejects ends it.
RECURSIVE mergeDecode(_, _, _)
mergeDecode(m, files, k) ==
    IF k > Len(files) THEN m
    ELSE IF ~files[k].ok
    THEN [m EXCEPT !.result = [state |-> "thrown", blob |-> NoBlob,
                               error |-> "createImageBitmap"]]
    ELSE mergeDecode([m EXCEPT !.bitmaps = Append(m.bitmaps, files[k]),
                               !.closes = Append(m.closes, 0)],
                     files, k + 1)

\* The forEach taking rows for cols in the cell of an image.
mergeDrawsByRows(m) ==
    [index \in DOMAIN m.bitmaps |->
        LET r == (index - 1) \div m.rows
            c == (index - 1) % m.rows
        IN  [x |-> 2 * c * m.maxCellW + (m.maxCellW - m.bitmaps[index].width),
             y |-> 2 * r * m.maxCellH + (m.maxCellH - m.bitmaps[index].height),
             width |-> m.bitmaps[index].width,
             height |-> m.bitmaps[index].height]]

\* bitmaps.forEach(... ctx.drawImage(bmp, x, y)) (lines 200-206).
mergeDraws(m) ==
    [index \in DOMAIN m.bitmaps |->
        LET r == (index - 1) \div m.cols
            c == (index - 1) % m.cols
        IN  [x |-> 2 * c * m.maxCellW + (m.maxCellW - m.bitmaps[index].width),
             y |-> 2 * r * m.maxCellH + (m.maxCellH - m.bitmaps[index].height),
             width |-> m.bitmaps[index].width,
             height |-> m.bitmaps[index].height]]

\* mergeImages after the decode loop (lines 174-212).
mergeGrid(d, platform) ==
    LET count == Len(d.bitmaps)
        cols  == CeilSqrt(count)
        rows  == CeilDiv(count, cols)
        maxCellW == MaxOf([k \in DOMAIN d.bitmaps |-> d.bitmaps[k].width])
        maxCellH == MaxOf([k \in DOMAIN d.bitmaps |-> d.bitmaps[k].height])
        canvasWidth  == maxCellW * cols
        canvasHeight == maxCellH * rows
        g == [d EXCEPT !.cols = cols, !.rows = rows,
                       !.maxCellW = maxCellW, !.maxCellH = maxCellH]
    IN  IF canvasWidth * canvasHeight > MAX_PIXELS
        THEN mergeThrow(g, "Merged image size exceeds safety limits")
        ELSE LET canvas == [g EXCEPT !.surfaces =
                               Append(g.surfaces, [width |-> canvasWidth,
                                                   height |-> canvasHeight])]
             IN  IF platform = "noContext"
                 THEN mergeThrow(canvas, "Failed to create canvas context")
                 ELSE LET drawn == [canvas EXCEPT !.draws = mergeDraws(canvas),
                                                  !.exports = <<[type |-> "image/jpeg",
                                                                 quality |-> Q(90)]>>]
                      IN  IF platform = "exportFails"
                          THEN mergeThrow(drawn, "convertToBlob")
                          ELSE mergeFinally(
                                   [drawn EXCEPT !.result =
                                       [state |-> "returned",
                                        blob |-> [type |-> "image/jpeg", quality |-> Q(90),
                                                  size |-> 0],
                                        error |-> ""]])

\* mergeImages(files).
mergeImages(files, platform) ==
    IF Len(files) = 0
    THEN [NoMerge EXCEPT !.result = [state |-> "thrown", blob |-> NoBlob,
                                     error |-> "No images to merge"]]
    ELSE LET d == mergeDecode(NoMerge, files, 1)
         IN  IF d.result.state = "thrown"
             THEN mergeFinally(d)
             ELSE mergeGrid(d, platform)

\* ---- the calls mergeImages is tried on
\* A file that does not decode, and bitmaps that pass validateImageFile.
MergeSources ==
    {[ok |-> FALSE, width |-> 0, height |-> 0]} \cup
    {[ok |-> TRUE, width |-> d[1], height |-> d[2]] :
        d \in { <<100, 100>>, <<51, 30>>, <<10000, 100>>, <<100, 10000>>,
                <<7000, 7000>> }}

RECURSIVE SeqsUpTo(_, _)
SeqsUpTo(S, n) ==
    IF n = 0 THEN { <<>> }
    ELSE LET shorter == SeqsUpTo(S, n - 1)
         IN  shorter \cup {Append(q, x) : q \in shorter, x \in S}

MergeInit ==
    /\ SchedInit
    /\ ValidatorIdle
    /\ BmpIdle
    /\ ProcessIdle
    /\ UIIdle
    /\ mfiles \in SeqsUpTo(MergeSources, MaxFiles)
    /\ mplatform \in {"ok", "noContext", "exportFails"}
    /\ mmerge = NoMerge
    /\ mpc = "start"

\* One call of mergeImages.
MergeImages ==
    /\ mpc = "start"
    /\ mmerge' = mergeImages(mfiles, mplatform)
    /\ mpc' = "done"
    /\ UNCHANGED <<mfiles, mplatform, schedVars, validatorVars, bmpVars, processVars,
                   uiVars>>

MergeSpec == MergeInit /\ [][MergeImages]_vars

\* The transform engine: one call of processImage or one of mergeImages.
TransformInit == ProcessInit \/ MergeInit

TransformNext == ProcessImage \/ ExportSettles \/ MergeImages

TransformSpec == TransformInit /\ [][TransformNext]_vars

(***************************************************************************)
(* The ImageWrangler component: the image list, the debounced reprocessing *)
(* of edited images and the completion of processImageAsync calls.         *)
(* ProcessOptions values are numbered: 0 for the options an image is       *)
(* added with, and the serial number of the edit for every edited value.   *)
(***************************************************************************)
ImageIds == 1..MaxImages

\* The part of the state the component's callbacks read and write.
UI == [images |-> images, timeout |-> timeout, calls |-> calls,
       submitted |-> submitted]

\* processSingleImage(image) up to its await: status 'processing', then the
\* processImageAsync(image.file, image.options) call.
processSingleImage(u, image) ==
    [u EXCEPT !.images = [i \in DOMAIN u.images |->
                             IF i = image.id
                             THEN [u.images[i] EXCEPT !.status = "processing"]
                             ELSE u.images[i]],
              !.calls = Append(u.calls, [id |-> image.id, options |-> image.options]),
              !.submitted = [u.submitted EXCEPT ![image.id] = image.options]]

\* The rest of processSingleImage when the awaited promise resolves with
\* the blob made with call.options.
processSingleImageDone(u, call) ==
    [u EXCEPT !.images = [i \in DOMAIN u.images |->
                             IF i = call.id
                             THEN [u.images[i] EXCEPT !.status = "done",
                                                      !.processedFile = call.options]
                             ELSE u.images[i]]]

\* The catch block of processSingleImage.
processSingleImageCatch(u, call) ==
    [u EXCEPT !.images = [i \in DOMAIN u.images |->
                             IF i = call.id
                             THEN [u.images[i] EXCEPT !.status = "error"]
                             ELSE u.images[i]]]

\* The function debounce returns: clear the one timer, set it again with the
\* arguments of this call.
debounce(u, image) ==
    [u EXCEPT !.timeout = [image |-> image, fired |-> FALSE]]

StoreUI(u) ==
    \E r \in {u} :
        /\ images' = r.images
        /\ timeout' = r.timeout
        /\ calls' = r.calls
        /\ submitted' = r.submitted

\* handleFilesAdded(newFiles): n images are appended with their default
\* options and processSingleImage is called for each.
RECURSIVE processEach(_, _, _)
processEach(u, from, to) ==
    IF from > to THEN u
    ELSE processEach(processSingleImage(u, [id |-> from, options |-> 0]),
                     from + 1, to)

handleFilesAdded(u, n) ==
    LET first == Len(u.images) + 1
        last  == Len(u.images) + n
        added == [u EXCEPT
                    !.images = u.images \o
                        [k \in 1..n |-> [options |-> 0, status |-> "pending",
                                         processedFile |-> -1]],
                    !.submitted = u.submitted \o [k \in 1..n |-> -1]]
    IN  processEach(added, first, last)

HandleFilesAdded ==
    /\ \E n \in 1..(MaxImages - Len(images)) : StoreUI(handleFilesAdded(UI, n))
    /\ UNCHANGED <<edits, schedVars, validatorVars, bmpVars, processVars, mergeVars>>

\* handleOptionsChange(id, options): the image gets the merged options and
\* status 'pending', and the debounced processSingleImage is called with it.
handleOptionsChange(u, id, options) ==
    LET newImages == [i \in DOMAIN u.images |->
                         IF i = id
                         THEN [u.images[i] EXCEPT !.options = options,
                                                  !.status = "pending"]
                         ELSE u.images[i]]
    IN  debounce([u EXCEPT !.images = newImages],
                 [id |-> id, options |-> options])

HandleOptionsChange ==
    /\ edits < MaxEdits
    /\ \E id \in DOMAIN images : StoreUI(handleOptionsChange(UI, id, edits + 1))
    /\ edits' = edits + 1
    /\ UNCHANGED <<schedVars, validatorVars, bmpVars, processVars, mergeVars>>

\* The debounce timer fires, 500 ms after the last debounced call.
TimerFires ==
    /\ timeout # NoTimeout
    /\ ~timeout.fired
    /\ StoreUI(processSingleImage([UI EXCEPT !.timeout.fired = TRUE],
                                  timeout.image))
    /\ UNCHANGED <<edits, schedVars, validatorVars, bmpVars, processVars, mergeVars>>

\* The promise of a processImageAsync call settles. The scheduler runs the
\* MAX_CONCURRENCY oldest calls and answers them in any order.
ProcessSettles(k, ok) ==
    /\ k \in DOMAIN calls
    /\ k <= MAX_CONCURRENCY
    /\ LET rest == [UI EXCEPT !.calls = SubSeq(calls, 1, k - 1)
                                        \o SubSeq(calls, k + 1, Len(calls))]
       IN  IF ok
           THEN StoreUI(processSingleImageDone(rest, calls[k]))
           ELSE StoreUI(processSingleImageCatch(rest, calls[k]))
    /\ UNCHANGED <<edits, schedVars, validatorVars, bmpVars, processVars, mergeVars>>

SomeProcessSettles == \E k \in 1..MAX_CONCURRENCY, ok \in BOOLEAN : ProcessSettles(k, ok)

UINext ==
    \/ HandleFilesAdded
    \/ HandleOptionsChange
    \/ TimerFires
    \/ SomeProcessSettles

UISpec == Init /\ [][UINext]_vars

\* The timer callback runs once its delay is over unless the timer was
\* cleared, and every processImageAsync promise settles.
UILiveSpec ==
    /\ Init
    /\ [][UINext]_vars
    /\ WF_vars(TimerFires)
    /\ WF_vars(SomeProcessSettles)

\* Runs without a crash and without terminateWorker, in which the worker
\* takes every message handed to it and answers it, and the main thread
\* handles every response posted to it.
NextLive ==
    \/ \E type \in {"PROCESS", "VALIDATE"}, h \in Handoffs : Submit(type, h)
    \/ WorkerStart
    \/ \E m \in executing,
          rtype \in {"PROCESS_COMPLETE", "VALIDATE_RESULT", "PROCESS_ERROR"} :
          WorkerFinish(m, rtype)
    \/ OnMessage

WorkerAnswers ==
    \E m \in executing,
       rtype \in {"PROCESS_COMPLETE", "VALIDATE_RESULT", "PROCESS_ERROR"} :
       WorkerFinish(m, rtype)

LiveSpec ==
    /\ Init
    /\ [][NextLive]_vars
    /\ WF_vars(WorkerStart)
    /\ WF_vars(WorkerAnswers)
    \* WF_vars(OnMessage), with ENABLED spelled out: OnMessage is enabled
    \* exactly when a response is waiting, and it always consumes one.
    /\ ([]<>(outbox = <<>>) \/ []<><<OnMessage>>_vars)

\* The worker on its own: besides the messages of the scheduler it may have
\* been handed, by a client that holds it directly, any list of messages a
\* WorkerMessage allows (file and options are optional, the type is a string).
MessageTypes == {"PROCESS", "VALIDATE", "UNKNOWN"}

DirectIds == (MaxRequests + 1)..(MaxRequests + MaxMessages)

DirectMessages ==
    [id : DirectIds, type : MessageTypes, file : BOOLEAN, options : BOOLEAN]

WorkerInit ==
    /\ activeJobs = 0
    /\ jobQueue = <<>>
    /\ worker = 1
    /\ pendingOperations = {}
    /\ nextId = 1
    /\ future = [i \in Ids |-> Unsubmitted]
    /\ \E n \in 1..MaxMessages :
          inbox \in {q \in [1..n -> DirectMessages] :
                        \A k \in 1..n : q[k].id = MaxRequests + k}
    /\ executing = {}
    /\ outbox = <<>>
    /\ dispatched = <<>>
    /\ lastOp = "init"
    /\ ValidatorIdle
    /\ BmpIdle
    /\ ProcessIdle
    /\ MergeIdle
    /\ UIIdle

\* The scheduler is used once the direct client's messages are answered.
DirectDone ==
    \A m \in {inbox[i] : i \in DOMAIN inbox} \cup executing
             \cup {outbox[i] : i \in DOMAIN outbox} : m.id \in Ids

WorkerNext ==
    \/ DirectDone /\ \E type \in {"PROCESS", "VALIDATE"}, h \in Handoffs : Submit(type, h)
    \/ WorkerStart
    \/ WorkerAnswers
    \/ OnMessage

WorkerSpec ==
    /\ Init \/ WorkerInit
    /\ [][WorkerNext]_vars
    /\ WF_vars(WorkerStart)
    /\ WF_vars(WorkerAnswers)
    /\ ([]<>(outbox = <<>>) \/ []<><<OnMessage>>_vars)

\* ------------------------------------------------------------ vocabulary
Range(q) == {q[i] : i \in DOMAIN q}
QueueIds == {jobQueue[i].id : i \in DOMAIN jobQueue}
InboxIds == {inbox[i].id : i \in DOMAIN inbox}
Types == {"PROCESS", "VALIDATE"}

\* The scheduler's bookkeeping as it is after construction.
Idle ==
    /\ activeJobs = 0
    /\ jobQueue = <<>>
    /\ pendingOperations = {}
    /\ worker = 0

\* onmessage is handling a response whose id is in the pending map.
KnownResponse ==
    /\ outbox # <<>>
    /\ Head(outbox).id \in pendingOperations
    /\ OnMessage

\* The hand-off h throws when attempted with the worker variable at w.
Throws(h, w) == h = "cloneThrows" \/ (h = "createThrows" /\ w = 0)

\* Requests whose promise is rejected by the step.
NewlyRejected ==
    {id \in Ids : future[id].state = "pending" /\ future'[id].state = "rejected"}

\* ------------------------------------------------------------------- C1
\* C1: after any sequence of submits, worker responses, synchronous dispatch
\* failures, worker crashes and terminateWorker calls, the number of running
\* requests (activeJobs) never exceeds K = 2.
C1_RunningAtMostK == activeJobs <= 2

C1_Witness ==
    /\ lastOp = "submit"
    /\ activeJobs = 2
    /\ jobQueue # <<>>

\* ------------------------------------------------------------------- C2
\* C2: when the worker raises a fatal error, every request the scheduler
\* holds unsettled, dispatched (in the pending map) or still queued, has its
\* promise rejected, all with the same error text "Worker crashed".
C2_CrashRejectsEveryUnsettled ==
    [][Crash =>
         \A id \in pendingOperations \cup QueueIds :
             future[id].state = "pending" => future'[id] = Rejected("Worker crashed")]_vars

\* ------------------------------------------------------------------- C3
\* C3 as stated: after a crash the bookkeeping is empty, and the next submit
\* creates a fresh worker and is handed to it in the same step.
C3_Original ==
    [][/\ Crash => Idle'
       /\ \A type \in Types, h \in Handoffs :
            (Idle /\ lastOp = "crash" /\ Submit(type, h)) =>
                /\ worker' = 1
                /\ inbox' = <<WorkerMessage(nextId, type)>>]_vars

\* C3 amended: after a crash the bookkeeping is empty (running count 0, queue
\* empty, pending map empty, no worker); the next submit runs its hand-off in
\* the same step and, unless that hand-off throws synchronously, creates a
\* fresh worker whose only message is this request; if it throws, this
\* request alone is rejected, nothing is left running or queued.
C3_CrashResets ==
    [][/\ Crash => Idle'
       /\ \A type \in Types, h \in Handoffs :
            (Idle /\ lastOp = "crash" /\ Submit(type, h)) =>
                IF Throws(h, 0)
                THEN /\ future'[nextId] = Rejected("thrown")
                     /\ activeJobs' = 0
                     /\ jobQueue' = <<>>
                     /\ inbox' = <<>>
                ELSE /\ worker' = 1
                     /\ inbox' = <<WorkerMessage(nextId, type)>>
                     /\ activeJobs' = 1
                     /\ pendingOperations' = {nextId}
                     /\ jobQueue' = <<>>
                     /\ future'[nextId] = Pending]_vars

\* Requests 1 and 2 were running and 3 was queued when the worker crashed;
\* request 4, submitted after the crash, completed normally.
C3_Witness ==
    /\ future[1] = Rejected("Worker crashed")
    /\ future[2] = Rejected("Worker crashed")
    /\ future[3] = Pending /\ 3 \notin Range(dispatched) /\ 3 \notin QueueIds
    /\ future[4] = Resolved

\* ------------------------------------------------------------------- C4
\* C4: in runs without a crash and without terminateWorker in which the
\* worker answers every message, every submitted request is eventually
\* dispatched and its promise eventually resolves or rejects.
\* A promise never returns to "pending" once settled, so "every pending
\* request is eventually dispatched and settled" is: from some point on no
\* request is pending and every submitted one has been dispatched.
C4_EveryRequestSettles ==
    <>[](\A id \in 1..(nextId - 1) :
            /\ id \in Range(dispatched)
            /\ future[id].state \in {"resolved", "rejected"})

\* Every request has been submitted, dispatched and settled, the last one
\* by a worker response.
C4_Witness ==
    /\ nextId > MaxRequests
    /\ Len(dispatched) = MaxRequests
    /\ \A id \in Ids : future[id].state \in {"resolved", "rejected"}
    /\ \E id \in Ids : future[id] = Resolved
    /\ lastOp = "response"

\* ------------------------------------------------------------------- C5
\* C5 as stated: a submit made while fewer than 2 are running is handed to
\* the worker in the same step, one made while 2 are running is only
\* queued, and each completion hands exactly one queued request to the
\* worker if the queue is non-empty and none otherwise.
C5_Original ==
    [][/\ \A type \in Types, h \in Handoffs :
            Submit(type, h) =>
                IF activeJobs < 2
                THEN nextId \in InboxIds'
                ELSE /\ jobQueue' = Append(jobQueue, [id |-> nextId, type |-> type, handoff |-> h])
                     /\ dispatched' = dispatched
                     /\ inbox' = inbox
       /\ KnownResponse =>
            IF jobQueue = <<>>
            THEN dispatched' = dispatched /\ inbox' = inbox
            ELSE /\ jobQueue' = Tail(jobQueue)
                 /\ dispatched' = Append(dispatched, Head(jobQueue).id)
                 /\ inbox' = Append(inbox, WorkerMessage(Head(jobQueue).id,
                                                          Head(jobQueue).type))]_vars

\* C5 amended: a submit made while fewer than 2 are running has its hand-off
\* run in the same step (and reaches the worker unless the hand-off throws
\* synchronously); a submit made while 2 are running is only queued.  Each
\* completion of a running request starts none if the queue is empty;
\* otherwise it starts the head of the queue, and after every started
\* request whose hand-off throws synchronously the next queued one, so that
\* exactly one queued request is handed to the worker unless all the
\* remaining hand-offs throw, and exactly one is started when the head's
\* hand-off does not throw.
C5_Admission ==
    [][/\ \A type \in Types, h \in Handoffs :
            Submit(type, h) =>
                IF activeJobs < 2
                THEN /\ dispatched' = Append(dispatched, nextId)
                     /\ jobQueue' = <<>>
                     /\ Throws(h, worker) \/ nextId \in InboxIds'
                ELSE /\ jobQueue' = Append(jobQueue, [id |-> nextId, type |-> type, handoff |-> h])
                     /\ dispatched' = dispatched
                     /\ inbox' = inbox
                     /\ activeJobs' = activeJobs
       /\ KnownResponse =>
            LET k == Len(dispatched') - Len(dispatched)
            IN  IF jobQueue = <<>>
                THEN k = 0 /\ inbox' = inbox
                ELSE /\ k >= 1 /\ k <= Len(jobQueue)
                     /\ jobQueue' = SubSeq(jobQueue, k + 1, Len(jobQueue))
                     /\ \A i \in 1..k : dispatched'[Len(dispatched) + i] = jobQueue[i].id
                     /\ \A i \in 1..(k - 1) : jobQueue[i].handoff = "cloneThrows"
                     /\ IF jobQueue[k].handoff = "cloneThrows"
                        THEN jobQueue' = <<>> /\ inbox' = inbox
                        ELSE inbox' = Append(inbox, WorkerMessage(jobQueue[k].id,
                                                                   jobQueue[k].type))
                     /\ Head(jobQueue).handoff # "cloneThrows" => k = 1]_vars

\* Requests 1 and 2 started at once, 3 and 4 waited; one completion started
\* exactly request 3 and left 4 queued.
C5_Witness ==
    /\ lastOp = "response"
    /\ dispatched = <<1, 2, 3>>
    /\ QueueIds = {4}
    /\ activeJobs = 2

\* ------------------------------------------------------------------- C6
\* C6: requests are handed to the worker in the order in which they were
\* submitted: of two requests not discarded by a crash or terminate, the one
\* submitted first is dispatched first.
C6_Fifo ==
    /\ \A i, j \in DOMAIN dispatched : i < j => dispatched[i] < dispatched[j]
    /\ \A i, j \in DOMAIN inbox : i < j => inbox[i].id < inbox[j].id
    /\ \A i, j \in DOMAIN jobQueue : i < j => jobQueue[i].id < jobQueue[j].id
    /\ \A d \in Range(dispatched), q \in QueueIds : d < q

\* A completion has just dispatched a queued request while a later one is
\* still waiting behind it.
C6_Witness ==
    /\ lastOp = "response"
    /\ Len(dispatched) >= 3
    /\ jobQueue # <<>>

\* ------------------------------------------------------------------- C7
\* The bookkeeping a submit produces on a scheduler just constructed.
FreshSubmit(type, h) ==
    enqueueJob([Sched EXCEPT !.activeJobs = 0, !.jobQueue = <<>>, !.worker = 0,
                             !.pendingOperations = {}, !.inbox = <<>>,
                             !.future = [future EXCEPT ![nextId] = Pending]],
               [id |-> nextId, type |-> type, handoff |-> h])

\* C7: terminateWorker may be called in any scheduler state, and right after
\* it the state is the initial one: no worker, running count 0, empty queue,
\* empty pending map; a later submit behaves as on a fresh scheduler.
C7_TerminateResets ==
    [][/\ ENABLED TerminateWorker
       /\ TerminateWorker => Idle'
       /\ \A type \in Types, h \in Handoffs :
            (lastOp = "terminate" /\ Submit(type, h)) =>
                /\ Idle
                /\ activeJobs' = FreshSubmit(type, h).activeJobs
                /\ jobQueue' = FreshSubmit(type, h).jobQueue
                /\ worker' = FreshSubmit(type, h).worker
                /\ pendingOperations' = FreshSubmit(type, h).pendingOperations
                /\ inbox' = FreshSubmit(type, h).inbox
                /\ future'[nextId] = FreshSubmit(type, h).future[nextId]]_vars

\* terminateWorker has just run while one request was with the worker and
\* another was waiting in the queue.
C7_Witness ==
    /\ lastOp = "terminate"
    /\ \E a \in Range(dispatched) : future[a] = Pending
    /\ \E b \in 1..(nextId - 1) : future[b] = Pending /\ b \notin Range(dispatched)

\* ------------------------------------------------------------------- C8
\* C8 as stated: a PROCESS_ERROR response for request A rejects the promise
\* of A and changes no other promise, and only a worker crash rejects more
\* than one request in a single step.
C8_Original ==
    [][/\ (KnownResponse /\ Head(outbox).type = "PROCESS_ERROR") =>
            /\ future'[Head(outbox).id] = Rejected("response.error")
            /\ \A b \in Ids \ {Head(outbox).id} : future'[b] = future[b]
       /\ Cardinality(NewlyRejected) > 1 => Crash]_vars

\* C8 amended: a PROCESS_ERROR response for request A rejects the promise of
\* A with the response's error and resolves nothing; every other running
\* request keeps its pending entry and its promise, every queued request
\* stays queued in order or is started in that step, and the only other
\* promises that change are those of queued requests started in that step
\* whose own hand-off throws synchronously (rejected with the thrown error).
\* A step that rejects more than one request is a worker crash or rejects
\* all but at most one of them for such a synchronous hand-off failure.
C8_ErrorIsolated ==
    [][/\ (KnownResponse /\ Head(outbox).type = "PROCESS_ERROR") =>
            LET a == Head(outbox).id
            IN  /\ future'[a] = Rejected("response.error")
                /\ \A b \in Ids \ {a} :
                     /\ future'[b] # future[b] =>
                            /\ b \in QueueIds
                            /\ b \in Range(dispatched')
                            /\ future'[b] = Rejected("thrown")
                     /\ b \in pendingOperations => b \in pendingOperations'
                     /\ b \in QueueIds => b \in QueueIds' \/ b \in Range(dispatched')
       /\ Cardinality(NewlyRejected) > 1 =>
            \/ Crash
            \/ Cardinality({id \in NewlyRejected : future'[id].error # "thrown"}) <= 1]_vars

\* Request 1 has just been rejected by a PROCESS_ERROR response while 2 was
\* running and 3 and 4 were queued: 2 and 3 are running, 4 still waits.
C8_Witness ==
    /\ lastOp = "response"
    /\ future[1] = Rejected("response.error")
    /\ pendingOperations = {2, 3}
    /\ future[2] = Pending /\ future[3] = Pending
    /\ QueueIds = {4}

\* ------------------------------------------------------------------- C9
\* C9: a worker response whose id is not in the pending map changes nothing:
\* running count, queue, pending map and every promise stay as they were and
\* no queued request is dispatched.
C9_UnknownIdIgnored ==
    [][(outbox # <<>> /\ Head(outbox).id \notin pendingOperations /\ OnMessage) =>
          UNCHANGED <<activeJobs, jobQueue, pendingOperations, future, worker,
                      inbox, dispatched>>]_vars

\* A response for a cancelled operation has just been handled while two
\* requests were running and one was queued.
C9_Witness ==
    /\ lastOp = "unknown"
    /\ activeJobs = 2
    /\ jobQueue # <<>>

\* ------------------------------------------------------------------ C10
\* b starts with the bytes sig.
HasPrefix(b, sig) == Len(b) >= Len(sig) /\ SubSeq(b, 1, Len(sig)) = sig

\* The format of the allowlisted signature the bytes b start with ("none"
\* if there is none): FF D8 FF then E0, E1, E8 or DB; the 8-byte PNG
\* signature; "RIFF" at bytes 0-3 with "WEBP" at bytes 8-11; "BM"; "GIF87a";
\* "GIF89a".
AllowlistedFormat(b) ==
    IF HasPrefix(b, <<255, 216, 255>>) /\ Len(b) >= 4 /\ b[4] \in {224, 225, 232, 219}
    THEN "image/jpeg"
    ELSE IF HasPrefix(b, <<137, 80, 78, 71, 13, 10, 26, 10>>)
    THEN "image/png"
    ELSE IF HasPrefix(b, <<82, 73, 70, 70>>) /\ Len(b) >= 12
            /\ SubSeq(b, 9, 12) = <<87, 69, 66, 80>>
    THEN "image/webp"
    ELSE IF HasPrefix(b, <<66, 77>>)
    THEN "image/bmp"
    ELSE IF HasPrefix(b, <<71, 73, 70, 56, 55, 97>>) \/ HasPrefix(b, <<71, 73, 70, 56, 57, 97>>)
    THEN "image/gif"
    ELSE "none"

\* C10: validateImageFile returns valid only if the file's leading bytes
\* match an allowlisted signature, and then reports that signature's format
\* as detectedType; a file matching none (a RIFF container without the WEBP
\* tag, a file shorter than its signature) is rejected, also when its MIME
\* type starts with image/ and the bitmap engine decodes it.
C10_OnlyAllowlistedSignatures ==
    vpc = "done" =>
        /\ vresult.isValid =>
              /\ AllowlistedFormat(vfile.bytes) # "none"
              /\ vresult.detectedType = AllowlistedFormat(vfile.bytes)
        /\ AllowlistedFormat(vfile.bytes) = "none" => ~vresult.isValid

\* A RIFF container without the WEBP tag, declared image/jpeg and decoded
\* by the bitmap engine to 1x1, has been rejected.
C10_Witness ==
    /\ vpc = "done"
    /\ HasPrefix(vfile.bytes, <<82, 73, 70, 70>>)
    /\ Len(vfile.bytes) >= 12
    /\ AllowlistedFormat(vfile.bytes) = "none"
    /\ vfile.type[1] = "image"
    /\ vfile.probe = [ok |-> TRUE, width |-> 1, height |-> 1]
    /\ vfile.size = Len(vfile.bytes)
    /\ ~vresult.isValid

\* ------------------------------------------------------------------ C11
\* The file passes the size, MIME and signature checks.
PassesEarlyChecks(f) ==
    /\ f.size > 0
    /\ f.size <= 104857600
    /\ f.type[1] = "image"
    /\ AllowlistedFormat(f.bytes) # "none"

\* C11: for a file that passes the size, MIME and signature checks,
\* validateImageFile accepts exactly when the dimension probe decodes and
\* width <= 15000, height <= 15000 and width*height <= 50,000,000; it
\* rejects when the probe fails to decode or any of the three bounds is
\* exceeded, with the dimension reason.
C11_DimensionGuard ==
    (vpc = "done" /\ PassesEarlyChecks(vfile)) =>
        /\ vresult.isValid <=>
              /\ vfile.probe.ok
              /\ vfile.probe.width <= 15000
              /\ vfile.probe.height <= 15000
              /\ vfile.probe.width * vfile.probe.height <= 50000000
        /\ ~vresult.isValid =>
              vresult.error = "Image exceeds maximum safe dimensions"

\* A PNG of 7072 x 7072 (each side within 15000, 50,013,184 pixels) has been
\* rejected.
C11_Witness ==
    /\ vpc = "done"
    /\ PassesEarlyChecks(vfile)
    /\ vfile.probe = [ok |-> TRUE, width |-> 7072, height |-> 7072]
    /\ ~vresult.isValid

\* ------------------------------------------------------------------ C12
\* C12: validateImageFile reports the reason of the first failing check in
\* the order empty, size > 100 MiB, MIME not image/, unknown signature,
\* unsafe dimensions; an empty, oversized or non-image-MIME file is rejected
\* without any header read or decode probe, a file of unknown signature
\* without a decode probe; a file of exactly 100 MiB is not rejected by the
\* size check.
C12_FirstFailingCheck ==
    vpc = "done" =>
        /\ IF vfile.size = 0
           THEN vresult = Invalid("File is empty (0 bytes)") /\ vcalls = <<>>
           ELSE IF vfile.size > 104857600
           THEN vresult = Invalid("File size exceeds limit") /\ vcalls = <<>>
           ELSE IF vfile.type[1] # "image"
           THEN vresult = Invalid("Invalid MIME type") /\ vcalls = <<>>
           ELSE IF AllowlistedFormat(vfile.bytes) = "none"
           THEN /\ vresult = Invalid("File header does not match any supported image format")
                /\ vcalls # <<>>
                /\ "createImageBitmap" \notin Range(vcalls)
           ELSE /\ vcalls[Len(vcalls)] = "createImageBitmap"
                /\ ~vresult.isValid =>
                      vresult = Invalid("Image exceeds maximum safe dimensions")
        /\ vfile.size = 104857600 => vresult.error # "File size exceeds limit"

\* A file of 100 MiB + 1 byte declared text/plain, with a valid PNG header,
\* has been rejected for its size, nothing having been read.
C12_Witness ==
    /\ vpc = "done"
    /\ vfile.size = 104857601
    /\ vfile.type[1] # "image"
    /\ AllowlistedFormat(vfile.bytes) = "image/png"
    /\ vresult = Invalid("File size exceeds limit")
    /\ vcalls = <<>>

\* ------------------------------------------------------------------ C13
\* The unsigned little-endian number in the two bytes at offset o of b.
RefUint16(b, o) == b[o + 1] + 256 * b[o + 2]

\* The signed little-endian number in the four bytes at offset o of b.
RefInt32(b, o) ==
    b[o + 1] + 256 * b[o + 2] + 65536 * b[o + 3]
    + 16777216 * (IF b[o + 4] >= 128 THEN b[o + 4] - 256 ELSE b[o + 4])

\* Bytes of a stored row of w pixels: 3*w rounded up to a multiple of 4.
RefStride(w) == 4 * ((3 * w + 3) \div 4)

\* C13: for every width W >= 0 and height H >= 0, encodeBMP produces exactly
\* 54 + H*(3*W + pad) bytes with pad = (4 - (3*W mod 4)) mod 4; every stored
\* row occupies a multiple of 4 bytes; the write offset ends exactly at the
\* buffer length and no write falls outside the buffer; the file-size field
\* at byte 2 equals that length.
C13_ExactSize ==
    bpc = "done" =>
        LET W   == bimage.width
            H   == bimage.height
            pad == (4 - ((3 * W) % 4)) % 4
        IN  /\ ~bout.threw
            /\ Len(bout.buffer) = 54 + H * (3 * W + pad)
            /\ (3 * W + pad) % 4 = 0
            /\ 3 * W + pad = RefStride(W)
            /\ bout.offset = Len(bout.buffer)
            /\ RefInt32(bout.buffer, 2) = Len(bout.buffer)

\* Images of width 3 (9 bytes a row, 3 of padding) and of width 4 (12 bytes
\* a row, none) and height 2 have been encoded: 78 bytes in both cases.
C13_Witness ==
    /\ bpc = "done"
    /\ bimage.width \in {3, 4}
    /\ bimage.height = 2
    /\ Len(bout.buffer) = 78

\* ------------------------------------------------------------------ C14
\* The R, G, B of pixel (x, y) as a 24-bit top-down BMP reader finds them.
RefPixel(b, w, x, y) ==
    LET at == 54 + y * RefStride(w) + 3 * x
    IN  <<b[at + 3], b[at + 2], b[at + 1]>>

\* The image with every alpha byte replaced by a.
WithAlpha(img, a) ==
    [img EXCEPT !.data = [i \in DOMAIN img.data |->
                             IF i % 4 = 0 THEN a ELSE img.data[i]]]

\* C14: read back by a reference 24-bit BMP reader (signature "BM", pixel
\* data at offset 54, width at byte 18, negative height at byte 22 for
\* top-down rows, 24 bits per pixel, uncompressed, B,G,R order, rows padded
\* to 4 bytes) the output of encodeBMP gives the original width and height
\* and for every pixel the original R, G, B; every padding byte is zero; the
\* output is the same whatever the alpha values.
C14_RoundTrip ==
    bpc = "done" =>
        LET b == bout.buffer
            W == bimage.width
            H == bimage.height
        IN  /\ ~bout.threw
            /\ b[1] = 66 /\ b[2] = 77
            /\ RefInt32(b, 10) = 54
            /\ RefInt32(b, 14) = 40
            /\ RefInt32(b, 18) = W
            /\ RefInt32(b, 22) = 0 - H
            /\ RefUint16(b, 26) = 1
            /\ RefUint16(b, 28) = 24
            /\ RefInt32(b, 30) = 0
            /\ Len(b) = 54 + H * RefStride(W)
            /\ \A y \in 0..(H - 1) :
                  /\ \A x \in 0..(W - 1) :
                        RefPixel(b, W, x, y) =
                            << bimage.data[4 * (y * W + x) + 1],
                               bimage.data[4 * (y * W + x) + 2],
                               bimage.data[4 * (y * W + x) + 3] >>
                  /\ \A k \in (3 * W + 1)..RefStride(W) :
                        b[54 + y * RefStride(W) + k] = 0
            /\ bout = encodeBMP(WithAlpha(bimage, 255))
            /\ bout = encodeBMP(WithAlpha(bimage, 0))

\* A 3 x 2 image whose red, green, blue and alpha differ in every pixel has
\* been encoded.
C14_Witness ==
    /\ bpc = "done"
    /\ bimage.width = 3
    /\ bimage.height = 2
    /\ \A i \in 0..5 :
          Cardinality({bimage.data[4 * i + 1], bimage.data[4 * i + 2],
                       bimage.data[4 * i + 3], bimage.data[4 * i + 4]}) = 4
    /\ ~bout.threw

\* ------------------------------------------------------------------ C15
\* The integer nearest to h half pixels (a half counts upwards).
RefRound(h) == CHOOSE r \in (h \div 2)..((h \div 2) + 1) : 2 * r - h \in {0, 1}

RefClamp(v, lo, hi) == IF v < lo THEN lo ELSE IF v > hi THEN hi ELSE v

\* C15: processImage allocates its target surface with width =
\* clamp(round(options.width), 1, 15000) and height =
\* clamp(round(options.height), 1, 15000), and throws before allocating any
\* surface when that width times that height exceeds 50,000,000; no surface
\* allocated by processImage has more than 50,000,000 pixels, whatever the
\* requested dimensions, zero and negative ones included.
C15_TargetSurfaceClamped ==
    LET W == RefClamp(RefRound(poptions.width), 1, 15000)
        H == RefClamp(RefRound(poptions.height), 1, 15000)
    IN  /\ Len(psurfaces) <= 1
        /\ \A k \in DOMAIN psurfaces :
              /\ psurfaces[k] = [width |-> W, height |-> H]
              /\ psurfaces[k].width * psurfaces[k].height <= 50000000
        /\ (ppc \in {"export", "done"} /\ pfile.decode.ok) =>
              IF W * H > 50000000
              THEN /\ psurfaces = <<>>
                   /\ pexports = <<>>
                   /\ presult.state = "thrown"
                   /\ presult.error = "Output dimensions exceed safety limit"
              ELSE Len(psurfaces) = 1

\* A request of 20000 x 20000 (clamped to 15000 x 15000, 225,000,000
\* pixels) on a file that decodes has been refused, no surface allocated.
C15_Witness ==
    /\ ppc = "done"
    /\ pfile.decode.ok
    /\ poptions.width = 40000 /\ poptions.height = 40000
    /\ presult.state = "thrown"
    /\ psurfaces = <<>>

\* ------------------------------------------------------------------ C16
\* C16: every pixel surface the transform engine allocates, here the grid
\* canvas of mergeImages, has width <= 15000, height <= 15000 and
\* width*height <= 50,000,000.
C16_EverySurfaceWithinLimits ==
    \A k \in DOMAIN mmerge.surfaces :
        /\ mmerge.surfaces[k].width <= 15000
        /\ mmerge.surfaces[k].height <= 15000
        /\ mmerge.surfaces[k].width * mmerge.surfaces[k].height <= 50000000

\* ------------------------------------------------------------------ C17
\* The call asks for a size: format jpeg or webp, positive target size.
SizeTargeted ==
    /\ poptions.format \in {"jpeg", "webp"}
    /\ poptions.targetSizeKB > 0

\* The call got as far as its export logic.
ReachedExport ==
    /\ pfile.decode.ok
    /\ pfile.ctx
    /\ psurfaces # <<>>

TargetBytes == poptions.targetSizeKB * 1024

\* The Blob export number k produced.
ExportedBlob(k) ==
    [type |-> pexports[k].type, quality |-> pexports[k].quality,
     size |-> pexports[k].size]

\* The search interval [minQ, maxQ] before export k (k = 2 is the first
\* probe): it starts at [0.01, 1.00]; minQ goes up to a probe strictly
\* smaller than the target, maxQ comes down to any other probe.
RECURSIVE RefMinQ(_)
RefMinQ(k) ==
    IF k <= 2 THEN 32
    ELSE IF pexports[k - 1].size < TargetBytes THEN pexports[k - 1].quality
    ELSE RefMinQ(k - 1)

RECURSIVE RefMaxQ(_)
RefMaxQ(k) ==
    IF k <= 2 THEN 3200
    ELSE IF pexports[k - 1].size < TargetBytes THEN RefMaxQ(k - 1)
    ELSE pexports[k - 1].quality

\* C17: for a jpeg or webp request with a positive target size processImage
\* returns the quality-1.00 export if its size <= target; otherwise, of the
\* 5 probes at the midpoints of [minQ, maxQ], the one of highest quality
\* whose size is strictly below the target; otherwise an export at quality
\* 0.01.  It throws only if the encoder itself fails, never because the
\* target is out of reach.
C17_SizeSearchResult ==
    (ppc = "done" /\ SizeTargeted /\ ReachedExport) =>
        IF pfile.encoder.throws
        THEN presult.state = "thrown" /\ presult.error = "convertToBlob"
        ELSE /\ presult.state = "returned"
             /\ \A k \in DOMAIN pexports :
                   /\ pexports[k].call = "convertToBlob"
                   /\ pexports[k].size = EncodedSize(pfile.encoder, pexports[k].quality)
             /\ pexports[1].quality = 3200
             /\ IF pexports[1].size <= TargetBytes
                THEN Len(pexports) = 1 /\ presult.blob = ExportedBlob(1)
                ELSE /\ Len(pexports) >= 6
                     /\ \A k \in 2..6 : 2 * pexports[k].quality = RefMinQ(k) + RefMaxQ(k)
                     /\ LET Under == {k \in 2..6 : pexports[k].size < TargetBytes}
                        IN  IF Under # {}
                            THEN /\ Len(pexports) = 6
                                 /\ \E k \in Under :
                                       /\ presult.blob = ExportedBlob(k)
                                       /\ \A m \in Under :
                                             pexports[m].quality <= pexports[k].quality
                            ELSE /\ Len(pexports) = 7
                                 /\ pexports[7].quality = 32
                                 /\ presult.blob = ExportedBlob(7)

\* A search has ended in which the export at 1.00 was too big, one probe
\* went under the target, a later probe did not, and the probe returned is
\* not the last one made.
C17_Witness ==
    /\ ppc = "done"
    /\ SizeTargeted
    /\ presult.state = "returned"
    /\ Len(pexports) = 6
    /\ \E k \in 2..5 :
          /\ presult.blob = ExportedBlob(k)
          /\ pexports[k].size < TargetBytes
          /\ \A m \in (k + 1)..6 : pexports[m].size >= TargetBytes

\* ------------------------------------------------------------------ C18
\* The encoder's size does not decrease as the quality increases.
Monotone(encoder) ==
    \A j, k \in DOMAIN encoder.steps :
        j <= k => encoder.steps[j][2] <= encoder.steps[k][2]

\* The result of the size search as a function of the encoder and the
\* target alone: the search from the interval [lo, hi] with n probes left
\* and `best` the best probe so far.
RECURSIVE RefSearch(_, _, _, _, _, _, _)
RefSearch(encoder, type, target, lo, hi, n, best) ==
    LET mid  == (lo + hi) \div 2
        size == EncodedSize(encoder, mid)
    IN  IF n = 0
        THEN IF best # NoBlob THEN best
             ELSE [type |-> type, quality |-> 32, size |-> EncodedSize(encoder, 32)]
        ELSE IF size < target
        THEN RefSearch(encoder, type, target, mid, hi, n - 1,
                       [type |-> type, quality |-> mid, size |-> size])
        ELSE RefSearch(encoder, type, target, lo, mid, n - 1, best)

RefSizeSearch(encoder, type, target) ==
    IF EncodedSize(encoder, 3200) <= target
    THEN [type |-> type, quality |-> 3200, size |-> EncodedSize(encoder, 3200)]
    ELSE RefSearch(encoder, type, target, 32, 3200, 5, NoBlob)

\* C18: with a deterministic encoder whose size does not decrease as the
\* quality increases and a target the export at quality 0.01 does not
\* exceed, the size search returns a result of size <= target; the result
\* is a function of the encoder and the target alone, so that runs on the
\* same image and target return the same result; after the 5 iterations the
\* interval [minQ, maxQ] has width (1.00 - 0.01) / 32, whatever the encoder.
C18_SearchConverges ==
    /\ (/\ ppc = "done" /\ SizeTargeted /\ ReachedExport
        /\ ~pfile.encoder.throws
        /\ Monotone(pfile.encoder)
        /\ EncodedSize(pfile.encoder, 32) <= TargetBytes) =>
            /\ presult.state = "returned"
            /\ presult.blob.size <= TargetBytes
            /\ presult.blob = RefSizeSearch(pfile.encoder, presult.blob.type, TargetBytes)
    /\ (/\ ppc = "done" /\ SizeTargeted /\ ReachedExport /\ ~pfile.encoder.throws) =>
            presult.blob = RefSizeSearch(pfile.encoder, presult.blob.type, TargetBytes)
    /\ (SizeTargeted /\ plocal.i = 5) =>
            /\ 32 * (plocal.maxQ - plocal.minQ) = 3200 - 32
            /\ plocal.minQ >= 32 /\ plocal.maxQ <= 3200

\* A search on an encoder that gets under 1 KB at quality 0.01 only has
\* ended: none of the 5 probes went under, the fallback export did.
C18_Witness ==
    /\ ppc = "done"
    /\ SizeTargeted
    /\ Monotone(pfile.encoder)
    /\ EncodedSize(pfile.encoder, 32) <= TargetBytes
    /\ EncodedSize(pfile.encoder, 131) > TargetBytes
    /\ plocal.i = 5
    /\ Len(pexports) = 7
    /\ presult.state = "returned"
    /\ presult.blob.size <= TargetBytes

\* ------------------------------------------------------------------ C19
\* C19 as stated: a size-targeted call makes the export at 1.00 and at most
\* 5 further exports on every path.
C19_Original ==
    SizeTargeted => Len(pexports) <= 6

\* C19 amended: a size-targeted call makes the export at quality 1.00, at
\* most 5 probe exports, and one more export at quality 0.01 exactly when
\* none of the 5 probes went under the target: at most 7 exports in all.
\* Every export uses a quality within [0.01, 1.00], and an export is started
\* only when every earlier one has settled.
C19_BoundedExports ==
    SizeTargeted =>
        /\ Len(pexports) <= 7
        /\ \A k \in DOMAIN pexports :
              /\ pexports[k].quality >= 32
              /\ pexports[k].quality <= 3200
              /\ k < Len(pexports) => pexports[k].settled
              /\ k = 1 => pexports[k].quality = 3200
              /\ k = 7 =>
                    /\ pexports[k].quality = 32
                    /\ \A m \in 2..6 : pexports[m].size >= TargetBytes
        /\ (ppc = "export") <=> (pexports # <<>> /\ ~pexports[Len(pexports)].settled)
        /\ (ppc = "done" /\ Len(pexports) = 6 /\ presult.state = "returned") =>
              \E m \in 2..6 : pexports[m].size < TargetBytes

\* Seven exports have been made: 1.00, five probes, none under the target,
\* and the fallback at 0.01.
C19_Witness ==
    /\ ppc = "done"
    /\ SizeTargeted
    /\ Len(pexports) = 7
    /\ pexports[7].quality = 32
    /\ presult.state = "returned"

\* ------------------------------------------------------------------ C20
\* C20: processImage chooses its export path from the options alone.  Format
\* bmp goes through encodeBMP, whatever the quality and the target size;
\* jpeg or webp with a positive target size runs the size search (first
\* export at 1.00); every other request is exported exactly once, at
\* options.quality / 100 for jpeg and webp and without a quality for png.  A
\* png request with a target size is exported once and ends exactly as the
\* same request without one.
C20_ExportPath ==
    (ppc = "done" /\ ReachedExport) =>
        IF poptions.format = "bmp"
        THEN /\ Len(pexports) = 1
             /\ pexports[1].call = "encodeBMP"
             /\ presult.state = "returned"
             /\ presult.blob = [type |-> "image/bmp", quality |-> -1,
                                size |-> 54 + psurfaces[1].height
                                               * RefStride(psurfaces[1].width)]
        ELSE IF SizeTargeted
        THEN /\ pexports[1].call = "convertToBlob"
             /\ pexports[1].quality = 3200
             /\ pexports[1].type = IF poptions.format = "jpeg"
                                   THEN "image/jpeg" ELSE "image/webp"
        ELSE LET type == IF poptions.format = "jpeg" THEN "image/jpeg"
                         ELSE IF poptions.format = "webp" THEN "image/webp"
                         ELSE "image/png"
                 quality == IF poptions.format = "png" THEN -1
                            ELSE 32 * poptions.quality
             IN  /\ Len(pexports) = 1
                 /\ pexports[1].call = "convertToBlob"
                 /\ pexports[1].type = type
                 /\ pexports[1].quality = quality
                 /\ IF pfile.encoder.throws
                    THEN presult.state = "thrown"
                    ELSE /\ presult.state = "returned"
                         /\ presult.blob = [type |-> type, quality |-> quality,
                                            size |-> EncodedSize(pfile.encoder, quality)]

\* A png request with a target size of 1 KB has been exported once, without
\* a quality, and returned a Blob larger than the target.
C20_Witness ==
    /\ ppc = "done"
    /\ poptions.format = "png"
    /\ poptions.targetSizeKB = 1
    /\ Len(pexports) = 1
    /\ pexports[1].quality = -1
    /\ presult.state = "returned"
    /\ presult.blob.size > 1024

\* ------------------------------------------------------------------ C21
\* The files of the mergeImages call that createImageBitmap decoded: those
\* before the first one that does not decode.
DecodedFiles ==
    LET bad == {k \in DOMAIN mfiles : ~mfiles[k].ok}
    IN  IF bad = {} THEN mfiles
        ELSE SubSeq(mfiles, 1, (CHOOSE k \in bad : \A m \in bad : k <= m) - 1)

\* C21: every bitmap processImage or mergeImages has decoded is closed
\* exactly once by the time the call returns or throws, and not before, on
\* every exit path: normal return, the early returns of the bmp and
\* size-search branches, the pixel-limit rejection, a missing 2D context, an
\* export failure, and in mergeImages a decode failure of a later file.
C21_BitmapsClosedOnce ==
    /\ ppc = "done" => pclosed = (IF pfile.decode.ok THEN 1 ELSE 0)
    /\ ppc # "done" => pclosed = 0
    /\ mpc = "done" =>
          /\ mmerge.result.state \in {"returned", "thrown"}
          /\ mmerge.bitmaps = DecodedFiles
          /\ DOMAIN mmerge.closes = DOMAIN mmerge.bitmaps
          /\ \A k \in DOMAIN mmerge.closes : mmerge.closes[k] = 1
    /\ mpc # "done" => mmerge = NoMerge

\* mergeImages has thrown on its third file, which does not decode, after
\* decoding two.
C21_Witness ==
    /\ mpc = "done"
    /\ Len(mfiles) >= 3
    /\ mfiles[1].ok /\ mfiles[2].ok /\ ~mfiles[3].ok
    /\ mmerge.result.state = "thrown"
    /\ mmerge.closes = <<1, 1>>

\* ------------------------------------------------------------------ C22
\* C22: for N >= 1 images mergeImages uses cols = ceil(sqrt(N)) and rows =
\* ceil(N / cols), so cols * rows >= N; the canvas is cols*cellW by
\* rows*cellH with the cell the largest width by the largest height; image i
\* (counted from 0) is drawn centred in cell (i div cols, i mod cols), with
\* row index < rows, entirely inside its cell and inside the canvas;
\* distinct images have distinct cells and do not overlap; 4 images of
\* 100 x 100 give a 200 x 200 canvas with one image per quadrant.
\* (Positions are in half pixels.)
C22_GridLayout ==
    mmerge.draws # <<>> =>
        LET N     == Len(mmerge.bitmaps)
            cols  == CHOOSE c \in 1..N : c * c >= N /\ (c - 1) * (c - 1) < N
            rows  == CHOOSE r \in 1..N : r * cols >= N /\ (r - 1) * cols < N
            cellW == CHOOSE w \in {mmerge.bitmaps[k].width : k \in 1..N} :
                        \A k \in 1..N : mmerge.bitmaps[k].width <= w
            cellH == CHOOSE h \in {mmerge.bitmaps[k].height : k \in 1..N} :
                        \A k \in 1..N : mmerge.bitmaps[k].height <= h
            Row(i) == (i - 1) \div cols
            Col(i) == (i - 1) % cols
            d == mmerge.draws
        IN  /\ N >= 1
            /\ mmerge.bitmaps = mfiles
            /\ cols * rows >= N
            /\ mmerge.surfaces = <<[width |-> cols * cellW, height |-> rows * cellH]>>
            /\ DOMAIN d = 1..N
            /\ \A i \in 1..N :
                  /\ Row(i) < rows /\ Col(i) < cols
                  /\ d[i].width = mmerge.bitmaps[i].width
                  /\ d[i].height = mmerge.bitmaps[i].height
                  \* inside its cell, centred
                  /\ d[i].x >= 2 * Col(i) * cellW
                  /\ d[i].x + 2 * d[i].width <= 2 * (Col(i) + 1) * cellW
                  /\ d[i].y >= 2 * Row(i) * cellH
                  /\ d[i].y + 2 * d[i].height <= 2 * (Row(i) + 1) * cellH
                  /\ d[i].x - 2 * Col(i) * cellW
                        = 2 * (Col(i) + 1) * cellW - (d[i].x + 2 * d[i].width)
                  /\ d[i].y - 2 * Row(i) * cellH
                        = 2 * (Row(i) + 1) * cellH - (d[i].y + 2 * d[i].height)
                  \* inside the canvas
                  /\ d[i].x >= 0 /\ d[i].y >= 0
                  /\ d[i].x + 2 * d[i].width <= 2 * mmerge.surfaces[1].width
                  /\ d[i].y + 2 * d[i].height <= 2 * mmerge.surfaces[1].height
            /\ \A i, j \in 1..N :
                  i # j =>
                      /\ <<Row(i), Col(i)>> # <<Row(j), Col(j)>>
                      /\ \/ d[i].x + 2 * d[i].width <= d[j].x
                         \/ d[j].x + 2 * d[j].width <= d[i].x
                         \/ d[i].y + 2 * d[i].height <= d[j].y
                         \/ d[j].y + 2 * d[j].height <= d[i].y
            /\ (N = 4 /\ \A k \in 1..4 : mmerge.bitmaps[k].width = 100
                                        /\ mmerge.bitmaps[k].height = 100) =>
                  /\ mmerge.surfaces = <<[width |-> 200, height |-> 200]>>
                  /\ <<d[1].x, d[1].y>> = <<0, 0>>
                  /\ <<d[2].x, d[2].y>> = <<200, 0>>
                  /\ <<d[3].x, d[3].y>> = <<0, 200>>
                  /\ <<d[4].x, d[4].y>> = <<200, 200>>

\* Four images of 100 x 100 have been merged on a 200 x 200 canvas.
C22_Witness ==
    /\ mpc = "done"
    /\ Len(mfiles) = 4
    /\ \A k \in 1..4 : mfiles[k] = [ok |-> TRUE, width |-> 100, height |-> 100]
    /\ mmerge.result.state = "returned"
    /\ mmerge.surfaces = <<[width |-> 200, height |-> 200]>>
    /\ Len(mmerge.draws) = 4

\* ------------------------------------------------------------------ C23
\* C23: when the hand-off of a request fails synchronously (creating the
\* worker or postMessage throws), the step that ran the hand-off rejects
\* that request's promise with the thrown error, gives back the slot it had
\* taken, goes on dispatching the queue (afterwards the queue is empty or 2
\* requests are running), and leaves no trace of the failed request: it is
\* not queued, not with the worker, not in the pending map, and the running
\* count is the number of pending-map entries.
C23_SyncFailureLeavesNoTrace ==
    [][\A id \in Ids :
          (id \in Range(dispatched') /\ id \notin Range(dispatched)
             /\ \E j \in Range(jobQueue) \cup
                         {[id |-> nextId, type |-> t, handoff |-> h] :
                              t \in Types, h \in Handoffs} :
                    /\ j.id = id
                    /\ j.handoff = "cloneThrows"
                         \/ (j.handoff = "createThrows" /\ worker' = 0)
                    /\ (id = nextId => \E t \in Types : Submit(t, j.handoff))) =>
              /\ future'[id] = Rejected("thrown")
              /\ jobQueue' = <<>> \/ activeJobs' = 2
              /\ id \notin QueueIds'
              /\ id \notin InboxIds'
              /\ id \notin pendingOperations'
              /\ activeJobs' = Cardinality(pendingOperations')]_vars
\* ------------------------------------------------------------------ C24
\* C24: the worker handles at most one request at a time: it never has the
\* handler of a second message started while the transform awaited by the
\* handler of an earlier message is still unfinished.
C24_OneRequestAtATime == Cardinality(executing) <= 1
\* ------------------------------------------------------------------ C25
\* The messages the worker holds: received and not yet answered.
InWorker == Range(inbox) \cup executing

\* The response types the claim allows for a message.
AllowedResponses(m) ==
    IF m.type \notin {"PROCESS", "VALIDATE"} THEN {"PROCESS_ERROR"}
    ELSE IF ~m.file THEN {"PROCESS_ERROR"}
    ELSE IF m.type = "PROCESS" /\ ~m.options THEN {"PROCESS_ERROR"}
    ELSE IF m.type = "PROCESS" THEN {"PROCESS_COMPLETE", "PROCESS_ERROR"}
    ELSE {"VALIDATE_RESULT", "PROCESS_ERROR"}

\* C25: in runs without a crash and without terminateWorker, the worker
\* posts exactly one response for every message it receives, with the same
\* id: a step in which a message leaves the worker posts one response for
\* it, of a type allowed for it (PROCESS: PROCESS_COMPLETE or PROCESS_ERROR;
\* VALIDATE: VALIDATE_RESULT or PROCESS_ERROR; missing file, missing options
\* or unknown kind: PROCESS_ERROR), no other step posts a response, and every
\* message is eventually answered, so that every slot is eventually free.
C25_OneResponsePerMessage ==
    /\ [][LET gone == InWorker \ InWorker'
          IN  /\ Cardinality(gone) <= 1
              /\ gone = {} => (outbox' = outbox \/ outbox' = Tail(outbox))
              /\ \A m \in gone :
                    \E t \in AllowedResponses(m) :
                        outbox' = Append(outbox, [id |-> m.id, type |-> t])]_vars
    /\ <>[](inbox = <<>> /\ executing = {} /\ outbox = <<>> /\ activeJobs = 0)

\* A message of an unknown kind and a VALIDATE message, handed to the worker
\* directly, have each been answered once.
C25_Witness ==
    /\ inbox = <<>>
    /\ executing = {}
    /\ outbox = <<[id |-> MaxRequests + 1, type |-> "PROCESS_ERROR"],
                  [id |-> MaxRequests + 2, type |-> "VALIDATE_RESULT"]>>
\* ------------------------------------------------------------------ C26
\* C26: the scheduler is work-conserving: in every state left by a complete
\* scheduler operation (submit, response handling, synchronous dispatch
\* failure, crash, terminate) a non-empty queue implies that exactly K = 2
\* requests are running; no request waits while a slot is free.
C26_WorkConserving == jobQueue # <<>> => activeJobs = 2

\* Request 1 failed synchronously at its hand-off and gave its slot back;
\* 2 and 3 took the two slots and 4 waits in the queue.
C26_Witness ==
    /\ lastOp = "submit"
    /\ future[1] = Rejected("thrown")
    /\ pendingOperations \ {1} = {2, 3}
    /\ activeJobs = 2
    /\ QueueIds = {4}
\* ------------------------------------------------------------------ C27
\* C27: in every state left by a complete scheduler operation the pending
\* map holds exactly the requests handed to the worker and not yet answered
\* (every message the worker holds has its entry, and every entry is for a
\* message the worker holds or a response on its way back), its size equals
\* the running count, and the running count is never negative.
C27_PendingMapIsRunningSet ==
    /\ {m.id : m \in InWorker} \subseteq pendingOperations
    /\ pendingOperations \subseteq
          {m.id : m \in InWorker} \cup {outbox[i].id : i \in DOMAIN outbox}
    /\ Cardinality(pendingOperations) = activeJobs
    /\ activeJobs >= 0
\* ------------------------------------------------------------------ C28
\* C28: terminateWorker leaves no caller waiting forever: every promise of a
\* request that is running (in the pending map) or queued when
\* terminateWorker is called is resolved or rejected when it returns.
C28_TerminateSettlesEveryFuture ==
    [][TerminateWorker =>
         \A id \in pendingOperations \cup QueueIds :
             future'[id].state \in {"resolved", "rejected"}]_vars
\* ------------------------------------------------------------------ C29
\* C29: whenever an image is in status 'pending' after a change of its
\* options, that image is eventually submitted for reprocessing with its
\* changed options and has left the 'pending' status, also when the options
\* of other images are changed within the debounce window.
C29_EditedImageIsReprocessed ==
    \A i \in ImageIds :
        (i \in DOMAIN images /\ images[i].status = "pending")
            ~> (/\ i \in DOMAIN images
                /\ images[i].status # "pending"
                /\ submitted[i] = images[i].options)

\* ------------------------------------------------------------------ C30
\* C30: when two processing requests for the same image were in flight at
\* once, then once no request for the image is in flight and its status is
\* 'done', the processed result stored for it is the result of the options
\* submitted most recently, whatever the order of the two completions.
C30_LatestOptionsWin ==
    \A i \in DOMAIN images :
        (/\ images[i].status = "done"
         /\ \A k \in DOMAIN calls : calls[k].id # i) =>
            images[i].processedFile = submitted[i]

====
